---- MODULE Spec2Model ----
(***************************************************************************)
(* Model of the map-object instance pipeline of NovusCore-Client:          *)
(* MapObjectRenderer (registration, ExecuteLoad, Clear, Update and the     *)
(* map-object pass) and the frame loop of ClientRenderer::Render.          *)
(*                                                                         *)
(* Files are sequences of cells (one cell per scalar field); a read of n   *)
(* cells fails when fewer than n cells are left, as Bytebuffer::Get,       *)
(* GetBytes and SkipRead do on a short buffer.                             *)
(***************************************************************************)
EXTENDS Integers, Sequences, FiniteSets, TLC

(***************************************************************************)
(* Bounds of the model.                                                    *)
(***************************************************************************)
\* placements that may be queued or instanced at the same time
MaxInstances == 2
\* calls of the two registration functions
MaxRegisterCalls == 2
\* calls of Clear
MaxClears == 1
\* frames rendered
MaxFrames == 3
\* ExecuteLoad calls that rebuild the buffers
MaxRebuilds == 2
\* registrations of one placement, enough to wrap its 8-bit counter
MaxRepeats == 257

(***************************************************************************)
(* Program constants.                                                      *)
(***************************************************************************)
\* Terrain::MAP_OBJECT_ROOT_TOKEN / _VERSION and Terrain::MAP_OBJECT_TOKEN /
\* _VERSION are declared in the map headers; only their uses are in the
\* renderer, the values here stand for them.
MAP_OBJECT_ROOT_TOKEN == 11
MAP_OBJECT_ROOT_VERSION == 2
MAP_OBJECT_TOKEN == 12
MAP_OBJECT_VERSION == 3
\* std::numeric_limits<u32>().max(), the marker of a free slot; it stands
\* here as the largest integer the model checker represents
U32Max == 2147483647
\* constexpr u32 maxTexturesPerMaterial
maxTexturesPerMaterial == 3

\* cells of the fixed-size records read with GetBytes
MaterialCells == 6
RenderBatchCells == 3
CullingDataCells == 7

Invalid == 0   \* Renderer::BufferID::Invalid()

(***************************************************************************)
(* Sequence helpers.                                                       *)
(***************************************************************************)
Last(s) == s[Len(s)]
Front(s) == SubSeq(s, 1, Len(s) - 1)
Range(s) == {s[i] : i \in 1..Len(s)}
Zeros(n) == [i \in 1..n |-> 0]
Min2(a, b) == IF a < b THEN a ELSE b
Max2(a, b) == IF a > b THEN a ELSE b

RECURSIVE SumSeq(_)
SumSeq(s) == IF s = <<>> THEN 0 ELSE s[1] + SumSeq(Tail(s))

\* floor of the square root
RECURSIVE ISqrtFrom(_, _)
ISqrtFrom(n, r) == IF (r + 1) * (r + 1) > n THEN r ELSE ISqrtFrom(n, r + 1)
ISqrt(n) == ISqrtFrom(n, 0)

(***************************************************************************)
(* The inputs: names, placements, chunks and the files on disk.            *)
(***************************************************************************)
\* The string table: nameID -> path, as characters.
NameTable ==
  <<  <<"k","e","e","p",".","n","m","o","r">>,
      <<"h","u","t",".","n","m","o","r">>  >>
NameIDs == 1..Len(NameTable)

\* StringUtils::fnv1a_32 of the path / StringTable::GetStringHash(nameID):
\* a 32-bit value per name.
NameHashTable == <<1405691582, 305419896>>
NameHash(nameID) == NameHashTable[nameID]

\* Terrain::Placement records: position, rotation, nameID, uniqueID.
PlacementTable ==
  <<  [uniqueID |-> 1, nameID |-> 1, position |-> <<1, 0, 0>>, rotation |-> <<0, 0, 90>>],
      [uniqueID |-> 2, nameID |-> 1, position |-> <<5, 0, 2>>, rotation |-> <<0, 0, 0>>],
      [uniqueID |-> 3, nameID |-> 2, position |-> <<0, 7, 0>>, rotation |-> <<10, 20, 30>>]  >>
PlacementIDs == 1..Len(PlacementTable)
UniqueIDs == {PlacementTable[p].uniqueID : p \in PlacementIDs}

\* chunk.mapObjectPlacements: two neighbouring chunks share placement 2.
ChunkTable == << <<1, 2>>, <<2, 3>> >>
ChunkIDs == 1..Len(ChunkTable)
NoPlacement == 0

\* what FileReader::Open finds for a path that does not exist
Missing == <<-1>>

\* One MapObjectMaterial: materialType, flags.unlit, transparencyMode,
\* textureNameID[0..2]; U32Max marks a free texture slot.
MaterialA == <<1, 0, 1, 501, U32Max, U32Max>>
MaterialB == <<2, 1, 0, 502, 501, U32Max>>

\* A render batch: startIndex, indexCount, materialID.
\* A culling-data record: min x,y,z, max x,y,z, radius.
GoodRoot(nameID) ==
  IF nameID = 1
  THEN <<MAP_OBJECT_ROOT_TOKEN, MAP_OBJECT_ROOT_VERSION, 2>> \o MaterialA \o MaterialB \o <<2>>
  ELSE <<MAP_OBJECT_ROOT_TOKEN, MAP_OBJECT_ROOT_VERSION, 1>> \o MaterialB \o <<1>>

GoodMeshes(nameID) ==
  IF nameID = 1
  THEN << <<MAP_OBJECT_TOKEN, MAP_OBJECT_VERSION, 1,
            3, 0, 1, 2,          \* indices
            2, 71, 72,           \* vertices
            1, 1, 900,           \* one vertex colour set
            1, 0,                \* triangle data
            1, 0, 3, 0,          \* one render batch
            -2, -1, 0, 2, 3, 4, 3>>,
          <<MAP_OBJECT_TOKEN, MAP_OBJECT_VERSION, 0,
            6, 0, 1, 2, 2, 1, 0,
            1, 73,
            0,
            0,
            2, 0, 3, 1, 3, 3, 0,  \* two render batches
            -5, 0, -1, 1, 1, 6, 4,
            0, 0, 0, 2, 2, 2, 1>> >>
  ELSE << <<MAP_OBJECT_TOKEN, MAP_OBJECT_VERSION, 2,
            8, 0, 1, 2, 0, 2, 1, 0, 1,
            1, 74,
            2, 1, 901, 0,
            0,
            2, 0, 4, 0, 4, 4, 0,
            0, 0, 0, 1, 1, 1, 1,
            -1, -1, -1, 0, 0, 0, 1>> >>

\* What may be found on disk for an asset when it is loaded.
Variants ==
  { "ok", "missing", "badToken", "older", "newer", "shortHeader", "truncatedRoot",
    "meshMissing", "meshBadToken", "meshOlder", "meshNewer", "meshShortHeader",
    "meshTruncatedIndices", "meshTruncated" }

WithCell(file, i, v) == [file EXCEPT ![i] = v]

RootFile(nameID, variant) ==
  LET good == GoodRoot(nameID) IN
  CASE variant = "missing" -> Missing
    [] variant = "badToken" -> WithCell(good, 1, MAP_OBJECT_ROOT_TOKEN + 1)
    [] variant = "older" -> WithCell(good, 2, MAP_OBJECT_ROOT_VERSION - 1)
    [] variant = "newer" -> WithCell(good, 2, MAP_OBJECT_ROOT_VERSION + 1)
    [] variant = "shortHeader" -> SubSeq(good, 1, 1)
    \* cut inside the last material record
    [] variant = "truncatedRoot" -> SubSeq(good, 1, Len(good) - 3)
    [] OTHER -> good

MeshFiles(nameID, variant) ==
  LET good == GoodMeshes(nameID)
      n == Len(good)
      last == good[n]
      With(f) == [good EXCEPT ![n] = f]
  IN
  CASE variant = "meshMissing" -> With(Missing)
    [] variant = "meshBadToken" -> With(WithCell(last, 1, MAP_OBJECT_TOKEN + 1))
    [] variant = "meshOlder" -> With(WithCell(last, 2, MAP_OBJECT_VERSION - 1))
    [] variant = "meshNewer" -> With(WithCell(last, 2, MAP_OBJECT_VERSION + 1))
    [] variant = "meshShortHeader" -> With(SubSeq(last, 1, 1))
    \* cut inside the index array
    [] variant = "meshTruncatedIndices" -> With(SubSeq(last, 1, 5))
    \* cut inside the culling data, after the render batches
    [] variant = "meshTruncated" -> With(SubSeq(last, 1, Len(last) - 2))
    [] OTHER -> good

(***************************************************************************)
(* Bytebuffer reads.                                                       *)
(***************************************************************************)
CanRead(file, pos, n) == pos + n <= Len(file)
Cells(file, pos, n) == SubSeq(file, pos + 1, pos + n)

(***************************************************************************)
(* Records with their default member values.                               *)
(***************************************************************************)
\* Terrain::CullingData as default-constructed: the box that any point
\* shrinks (minimum at the largest value, maximum at the smallest).
BoxLimit == 100000
DefaultCullingData ==
  [ minBoundingBox |-> <<BoxLimit, BoxLimit, BoxLimit>>,
    maxBoundingBox |-> <<-BoxLimit, -BoxLimit, -BoxLimit>>,
    boundingSphereRadius |-> 0 ]

DefaultRenderBatch == [startIndex |-> 0, indexCount |-> 0, materialID |-> 0]

NewLoadedMapObject(objectID) ==
  [ objectID |-> objectID,
    debugName |-> 0,
    baseVertexOffset |-> 0,
    baseMaterialOffset |-> 0,
    baseCullingDataOffset |-> 0,
    renderBatches |-> <<>>,
    renderBatchOffsets |-> <<>>,
    materialParameterIDs |-> <<>>,
    drawParameterIDs |-> <<>>,
    cullingData |-> <<>>,
    vertexColors |-> << <<>>, <<>> >>,
    vertexColorSizes |-> <<0, 0>>,
    vertexColorTextureIDs |-> <<0, 0>>,
    instanceIDs |-> <<>>,
    instanceCount |-> 0 ]

\* StringUtils::EndsWith(name, ".nmor")
EndsWith(str, suffix) ==
  /\ Len(str) >= Len(suffix)
  /\ SubSeq(str, Len(str) - Len(suffix) + 1, Len(str)) = suffix

NmorExtension == <<".", "n", "m", "o", "r">>

(***************************************************************************)
(* Renderer::LoadTextureIntoArray / CreateDataTextureIntoArray: the index  *)
(* of the texture in the array; a path already in the array is not loaded  *)
(* again.                                                                  *)
(***************************************************************************)
IndexOf(s, v) == CHOOSE i \in 1..Len(s) : s[i] = v

LoadTextureIntoArray(textures, path) ==
  IF path \in Range(textures)
  THEN [textures |-> textures, textureID |-> IndexOf(textures, path) - 1]
  ELSE [textures |-> Append(textures, path), textureID |-> Len(textures)]

\* the texture of the vertex colours of one loaded object
VertexColorTexture(objectID, i) == 1000 + 2 * objectID + i

(***************************************************************************)
(* MapObjectRenderer::LoadRoot                                             *)
(***************************************************************************)
RECURSIVE LoadMaterialTextures(_, _, _, _)
LoadMaterialTextures(cells, j, textures, ids) ==
  IF j > maxTexturesPerMaterial THEN [textures |-> textures, ids |-> ids]
  ELSE IF cells[3 + j] < U32Max
       THEN LET r == LoadTextureIntoArray(textures, cells[3 + j])
            IN LoadMaterialTextures(cells, j + 1, r.textures,
                                    [ids EXCEPT ![j] = r.textureID % 65536])
       ELSE LoadMaterialTextures(cells, j + 1, textures, ids)

RECURSIVE ReadMaterials(_, _, _, _)
ReadMaterials(file, pos, n, st) ==
  IF n = 0 THEN [ok |-> TRUE, pos |-> pos, st |-> st]
  ELSE IF ~CanRead(file, pos, MaterialCells) THEN [ok |-> FALSE, pos |-> pos, st |-> st]
  ELSE LET cells == Cells(file, pos, MaterialCells)
           tx == LoadMaterialTextures(cells, 1, st.textures, <<0, 0, 0>>)
           material == [ materialType |-> cells[1],
                         unlit |-> cells[2],
                         alphaTest |-> (cells[3] = 1),
                         textureIDs |-> tx.ids ]
       IN ReadMaterials(file, pos + MaterialCells, n - 1,
                        [st EXCEPT !.materials = Append(@, material),
                                   !.textures = tx.textures])

\* which of the two version errors LoadRoot / LoadMesh report
VersionErrorAcceptOlder(version, expected) ==
  IF version <= expected THEN "none" ELSE "newer"

VersionError(version, expected) ==
  IF version = expected THEN "none"
  ELSE IF version < expected THEN "older" ELSE "newer"

\* result: ok, the number of meshes, the renderer state as the call left it,
\* and what made the call return false (error)
LoadRoot(file, st) ==
  LET Fail(e) == [ok |-> FALSE, numMeshes |-> 0, st |-> st, error |-> e] IN
  IF file = Missing THEN Fail("open")
  ELSE IF ~CanRead(file, 0, 2) THEN Fail("read")
  ELSE IF file[1] # MAP_OBJECT_ROOT_TOKEN THEN Fail("token")
  ELSE IF VersionError(file[2], MAP_OBJECT_ROOT_VERSION) # "none"
       THEN Fail(VersionError(file[2], MAP_OBJECT_ROOT_VERSION))
  ELSE IF ~CanRead(file, 2, 1) THEN Fail("read")
  ELSE LET numMaterials == file[3]
           st1 == [st EXCEPT !.mo.baseMaterialOffset = Len(st.materials)]
           mats == ReadMaterials(file, 3, numMaterials, st1)
       IN IF ~mats.ok
          THEN [ok |-> FALSE, numMeshes |-> 0, st |-> mats.st, error |-> "read"]
          ELSE IF ~CanRead(file, mats.pos, 1)
               THEN [ok |-> FALSE, numMeshes |-> 0, st |-> mats.st, error |-> "read"]
               ELSE [ok |-> TRUE, numMeshes |-> file[mats.pos + 1], st |-> mats.st,
                     error |-> "none"]

(***************************************************************************)
(* MapObjectRenderer::LoadIndicesAndVertices                               *)
(***************************************************************************)
RECURSIVE ReadVertexColorSets(_, _, _, _, _)
ReadVertexColorSets(file, pos, i, n, st) ==
  IF i > n THEN [ok |-> TRUE, pos |-> pos, st |-> st]
  ELSE IF ~CanRead(file, pos, 1) THEN [ok |-> FALSE, pos |-> pos, st |-> st]
  ELSE LET numVertexColors == file[pos + 1] IN
       IF numVertexColors = 0 THEN ReadVertexColorSets(file, pos + 1, i + 1, n, st)
       ELSE LET beforeSize == Len(st.mo.vertexColors[i])
                resized == [st EXCEPT !.mo.vertexColors[i] = @ \o Zeros(numVertexColors)]
            IN IF ~CanRead(file, pos + 1, numVertexColors)
               THEN [ok |-> FALSE, pos |-> pos + 1, st |-> resized]
               ELSE ReadVertexColorSets(file, pos + 1 + numVertexColors, i + 1, n,
                      [st EXCEPT !.mo.vertexColors[i] = @ \o Cells(file, pos + 1, numVertexColors)])

\* result: ok, the read position, the renderer state and the mesh offsets
LoadIndicesAndVertices(file, pos, st) ==
  LET mesh0 == [ baseIndexOffset |-> Len(st.indices),
                 baseVertexOffset |-> Len(st.vertices),
                 baseVertexColor1Offset |-> 0,
                 baseVertexColor2Offset |-> 0 ]
      Fail(s) == [ok |-> FALSE, pos |-> pos, st |-> s, mesh |-> mesh0]
  IN
  IF ~CanRead(file, pos, 1) THEN Fail(st)
  ELSE
  LET indexCount == file[pos + 1]
      p1 == pos + 1
      resizedI == [st EXCEPT !.indices = @ \o Zeros(indexCount)]
  IN
  IF ~CanRead(file, p1, indexCount) THEN Fail(resizedI)
  ELSE
  LET st2 == [st EXCEPT !.indices = @ \o Cells(file, p1, indexCount)]
      p2 == p1 + indexCount
  IN
  IF ~CanRead(file, p2, 1) THEN Fail(st2)
  ELSE
  LET vertexCount == file[p2 + 1]
      p3 == p2 + 1
      resizedV == [st2 EXCEPT !.vertices = @ \o Zeros(vertexCount)]
  IN
  IF ~CanRead(file, p3, vertexCount) THEN Fail(resizedV)
  ELSE
  LET st4 == [st2 EXCEPT !.vertices = @ \o Cells(file, p3, vertexCount)]
      p4 == p3 + vertexCount
  IN
  IF ~CanRead(file, p4, 1) THEN Fail(st4)
  ELSE
  LET numVertexColorSets == file[p4 + 1]
      mesh == [mesh0 EXCEPT
                 !.baseVertexColor1Offset =
                    IF numVertexColorSets > 0 THEN Len(st4.mo.vertexColors[1]) ELSE U32Max,
                 !.baseVertexColor2Offset =
                    IF numVertexColorSets > 1 THEN Len(st4.mo.vertexColors[2]) ELSE U32Max]
      sets == ReadVertexColorSets(file, p4 + 1, 1, numVertexColorSets, st4)
  IN [ok |-> sets.ok, pos |-> sets.pos, st |-> sets.st, mesh |-> mesh]

(***************************************************************************)
(* MapObjectRenderer::LoadRenderBatches                                    *)
(***************************************************************************)
ReadRenderBatch(cells) ==
  [startIndex |-> cells[1], indexCount |-> cells[2], materialID |-> cells[3]]

ReadCullingData(cells) ==
  [ minBoundingBox |-> <<cells[1], cells[2], cells[3]>>,
    maxBoundingBox |-> <<cells[4], cells[5], cells[6]>>,
    boundingSphereRadius |-> cells[7] ]

\* the loop over the render batches just read: offsets and material parameters
RECURSIVE AddRenderBatchOffsets(_, _, _, _, _, _)
AddRenderBatchOffsets(i, numRenderBatches, renderBatchesSize, mesh, exteriorLit, st) ==
  IF i >= numRenderBatches THEN st
  ELSE LET renderBatch == st.mo.renderBatches[renderBatchesSize + i + 1]
           materialParameterID == Len(st.materialParameters)
           offsets == [ baseVertexOffset |-> mesh.baseVertexOffset,
                        baseIndexOffset |-> mesh.baseIndexOffset,
                        baseVertexColor1Offset |-> mesh.baseVertexColor1Offset,
                        baseVertexColor2Offset |-> mesh.baseVertexColor2Offset ]
           params == [ materialID |-> st.mo.baseMaterialOffset + renderBatch.materialID,
                       exteriorLit |-> exteriorLit ]
       IN AddRenderBatchOffsets(i + 1, numRenderBatches, renderBatchesSize, mesh, exteriorLit,
            [st EXCEPT !.mo.renderBatchOffsets = Append(@, offsets),
                       !.mo.materialParameterIDs = Append(@, materialParameterID),
                       !.materialParameters = Append(@, params)])

LoadRenderBatches(file, pos, st, mesh, renderFlags) ==
  LET Fail(s) == [ok |-> FALSE, st |-> s] IN
  IF ~CanRead(file, pos, 1) THEN Fail(st)
  ELSE
  LET numTriangleData == file[pos + 1]
      p1 == pos + 1
  IN
  IF ~CanRead(file, p1, numTriangleData) THEN Fail(st)
  ELSE
  LET p2 == p1 + numTriangleData IN
  IF ~CanRead(file, p2, 1) THEN Fail(st)
  ELSE
  LET numRenderBatches == file[p2 + 1]
      p3 == p2 + 1
      renderBatchesSize == Len(st.mo.renderBatches)
      resized == [st EXCEPT !.mo.renderBatches =
                    @ \o [i \in 1..numRenderBatches |-> DefaultRenderBatch]]
  IN
  IF ~CanRead(file, p3, numRenderBatches * RenderBatchCells) THEN Fail(resized)
  ELSE
  LET st1 == [st EXCEPT !.mo.renderBatches =
                @ \o [i \in 1..numRenderBatches |->
                        ReadRenderBatch(Cells(file, p3 + (i - 1) * RenderBatchCells,
                                              RenderBatchCells))]]
      p4 == p3 + numRenderBatches * RenderBatchCells
      st2 == AddRenderBatchOffsets(0, numRenderBatches, renderBatchesSize, mesh,
                                   IF renderFlags > 0 THEN 1 ELSE 0, st1)
      resizedC == [st2 EXCEPT !.mo.cullingData =
                     @ \o [i \in 1..numRenderBatches |-> DefaultCullingData]]
  IN
  IF ~CanRead(file, p4, numRenderBatches * CullingDataCells) THEN Fail(resizedC)
  ELSE [ok |-> TRUE,
        st |-> [st2 EXCEPT !.mo.cullingData =
                  @ \o [i \in 1..numRenderBatches |->
                          ReadCullingData(Cells(file, p4 + (i - 1) * CullingDataCells,
                                                CullingDataCells))]]]

(***************************************************************************)
(* MapObjectRenderer::LoadMesh                                             *)
(***************************************************************************)
\* The result of the header read is not tested by the code. A file shorter
\* than the header leaves the header unset; whatever it then holds, the load
\* returns false at the token, the version, or at the latest at the index
\* count (the file is too short for flags and count), with no state changed.
LoadMesh(file, st) ==
  LET Fail(e) == [ok |-> FALSE, st |-> st, error |-> e] IN
  IF file = Missing THEN Fail("open")
  ELSE IF ~CanRead(file, 0, 2) THEN Fail("read")
  ELSE IF file[1] # MAP_OBJECT_TOKEN THEN Fail("token")
  ELSE IF VersionError(file[2], MAP_OBJECT_VERSION) # "none"
       THEN Fail(VersionError(file[2], MAP_OBJECT_VERSION))
  ELSE IF ~CanRead(file, 2, 1) THEN Fail("read")
  ELSE LET renderFlags == file[3]
           iv == LoadIndicesAndVertices(file, 3, st)
       IN IF ~iv.ok THEN [ok |-> FALSE, st |-> iv.st]
          ELSE LoadRenderBatches(file, iv.pos, iv.st, iv.mesh, renderFlags)

(***************************************************************************)
(* MapObjectRenderer::LoadMapObject                                        *)
(***************************************************************************)
VertexColorTextureWidth == 1024
CeilDiv(a, b) == (a + b - 1) \div b

RECURSIVE LoadMeshes(_, _, _, _)
LoadMeshes(files, i, numMeshes, st) ==
  IF i >= numMeshes THEN [ok |-> TRUE, st |-> st]
  ELSE LET file == IF i + 1 <= Len(files) THEN files[i + 1] ELSE Missing
           r == LoadMesh(file, st)
       IN IF ~r.ok THEN r ELSE LoadMeshes(files, i + 1, numMeshes, r.st)

\* the padded vertex colour vectors become data textures of the array
RECURSIVE CreateVertexColorTextures(_, _)
CreateVertexColorTextures(i, st) ==
  IF i > 2 THEN st
  ELSE LET vertexColorCount == Len(st.mo.vertexColors[i]) IN
       IF vertexColorCount > 0
       THEN LET height == CeilDiv(vertexColorCount, VertexColorTextureWidth) IN
            CreateVertexColorTextures(i + 1,
              [st EXCEPT !.mo.vertexColorSizes[i] = VertexColorTextureWidth * height,
                         !.mo.vertexColorTextureIDs[i] = Len(st.textures),
                         !.textures = Append(@, VertexColorTexture(st.mo.objectID, i))])
       ELSE CreateVertexColorTextures(i + 1, st)

\* the box of the first batch alone
GrowBoxFirstOnly(box, boxes) ==
  IF boxes = <<>> THEN box
  ELSE [box EXCEPT !.minBoundingBox = boxes[1].minBoundingBox,
                   !.maxBoundingBox = boxes[1].maxBoundingBox]

\* the box of the whole object: grown from the default box by every batch box
RECURSIVE GrowBox(_, _)
GrowBox(box, boxes) ==
  IF boxes = <<>> THEN box
  ELSE LET b == boxes[1] IN
       GrowBox([box EXCEPT
                  !.minBoundingBox = [a \in 1..3 |-> Min2(b.minBoundingBox[a], @[a])],
                  !.maxBoundingBox = [a \in 1..3 |-> Max2(b.maxBoundingBox[a], @[a])]],
               Tail(boxes))

Distance(p, q) ==
  ISqrt(SumSeq([a \in 1..3 |-> (p[a] - q[a]) * (p[a] - q[a])]))

MapObjectCullingData(boxes) ==
  LET box == GrowBox(DefaultCullingData, boxes) IN
  [box EXCEPT !.boundingSphereRadius = Distance(box.minBoundingBox, box.maxBoundingBox) \div 2]

\* the load that appends no culling data of its own for the object
LoadMapObjectNoAggregate(nameID, variant, st) ==
  IF ~EndsWith(NameTable[nameID], NmorExtension) THEN [ok |-> FALSE, st |-> st]
  ELSE
  LET st0 == [st EXCEPT !.mo.debugName = nameID]
      root == LoadRoot(RootFile(nameID, variant), st0)
  IN
  IF ~root.ok THEN [ok |-> FALSE, st |-> root.st]
  ELSE
  LET st1 == [root.st EXCEPT !.mo.baseVertexOffset = Len(root.st.vertices),
                             !.mo.baseCullingDataOffset = Len(root.st.cullingData)]
      meshes == LoadMeshes(MeshFiles(nameID, variant), 0, root.numMeshes, st1)
  IN
  IF ~meshes.ok THEN [ok |-> FALSE, st |-> meshes.st]
  ELSE [ok |-> TRUE, st |-> CreateVertexColorTextures(1, meshes.st)]

\* st: the shared arrays and the loaded object under construction (st.mo)
LoadMapObject(nameID, variant, st) ==
  IF ~EndsWith(NameTable[nameID], NmorExtension) THEN [ok |-> FALSE, st |-> st]
  ELSE
  LET st0 == [st EXCEPT !.mo.debugName = nameID]
      root == LoadRoot(RootFile(nameID, variant), st0)
  IN
  IF ~root.ok THEN [ok |-> FALSE, st |-> root.st]
  ELSE
  LET st1 == [root.st EXCEPT !.mo.baseVertexOffset = Len(root.st.vertices),
                             !.mo.baseCullingDataOffset = Len(root.st.cullingData)]
      meshes == LoadMeshes(MeshFiles(nameID, variant), 0, root.numMeshes, st1)
  IN
  IF ~meshes.ok THEN [ok |-> FALSE, st |-> meshes.st]
  ELSE
  LET st2 == CreateVertexColorTextures(1, meshes.st)
  IN [ok |-> TRUE,
      st |-> [st2 EXCEPT !.cullingData = Append(@, MapObjectCullingData(st2.mo.cullingData))]]

(***************************************************************************)
(* MapObjectRenderer::AddInstance                                          *)
(***************************************************************************)
\* glm::translate(pos) * glm::eulerAngleZYX(rot.z, -rot.y, -rot.x), kept as
\* the translation and the three angles in the order the code passes them.
InstanceMatrix(placement) ==
  [ translation |-> placement.position,
    eulerZYX |-> <<placement.rotation[3], -placement.rotation[2], -placement.rotation[1]>> ]

\* the loop over the render batches stopping one batch early
RECURSIVE AddDrawCallsButLast(_, _, _, _)
AddDrawCallsButLast(i, mapObjectID, instanceID, r) ==
  LET mapObject == r.loaded[mapObjectID + 1] IN
  IF i + 1 >= Len(mapObject.renderBatches) THEN r
  ELSE LET renderBatch == mapObject.renderBatches[i + 1]
           renderBatchOffsets == mapObject.renderBatchOffsets[i + 1]
           drawParameterID == Len(r.drawParameters)
       IN AddDrawCallsButLast(i + 1, mapObjectID, instanceID,
            [r EXCEPT !.drawParameters =
                        Append(@, [ vertexOffset |-> renderBatchOffsets.baseVertexOffset,
                                    firstIndex |-> renderBatchOffsets.baseIndexOffset
                                                     + renderBatch.startIndex,
                                    indexCount |-> renderBatch.indexCount,
                                    firstInstance |-> drawParameterID,
                                    instanceCount |-> 1 ]),
                      !.loaded[mapObjectID + 1].drawParameterIDs = Append(@, drawParameterID),
                      !.instanceLookupData =
                        Append(@, [ loadedObjectID |-> mapObject.objectID,
                                    instanceID |-> instanceID,
                                    materialParamID |-> mapObject.materialParameterIDs[i + 1],
                                    cullingDataID |-> mapObject.baseCullingDataOffset,
                                    vertexColorTextureID0 |->
                                      mapObject.vertexColorTextureIDs[1] % 65536,
                                    vertexColorTextureID1 |->
                                      mapObject.vertexColorTextureIDs[2] % 65536,
                                    vertexOffset |-> renderBatchOffsets.baseVertexOffset,
                                    vertexColor1Offset |->
                                      renderBatchOffsets.baseVertexColor1Offset,
                                    vertexColor2Offset |->
                                      renderBatchOffsets.baseVertexColor2Offset ])])

\* the draw calls of an instance starting at the ID of the instance
RECURSIVE AddDrawCallsPerInstance(_, _, _, _)
AddDrawCallsPerInstance(i, mapObjectID, instanceID, r) ==
  LET mapObject == r.loaded[mapObjectID + 1] IN
  IF i >= Len(mapObject.renderBatches) THEN r
  ELSE LET renderBatch == mapObject.renderBatches[i + 1]
           renderBatchOffsets == mapObject.renderBatchOffsets[i + 1]
           drawParameterID == Len(r.drawParameters)
           drawParameters ==
             [ vertexOffset |-> renderBatchOffsets.baseVertexOffset,
               firstIndex |-> renderBatchOffsets.baseIndexOffset + renderBatch.startIndex,
               indexCount |-> renderBatch.indexCount,
               firstInstance |-> instanceID,
               instanceCount |-> 1 ]
           instanceLookupData ==
             [ loadedObjectID |-> mapObject.objectID,
               instanceID |-> instanceID,
               materialParamID |-> mapObject.materialParameterIDs[i + 1],
               cullingDataID |-> mapObject.baseCullingDataOffset,
               vertexColorTextureID0 |-> mapObject.vertexColorTextureIDs[1] % 65536,
               vertexColorTextureID1 |-> mapObject.vertexColorTextureIDs[2] % 65536,
               vertexOffset |-> renderBatchOffsets.baseVertexOffset,
               vertexColor1Offset |-> renderBatchOffsets.baseVertexColor1Offset,
               vertexColor2Offset |-> renderBatchOffsets.baseVertexColor2Offset ]
       IN AddDrawCallsPerInstance(i + 1, mapObjectID, instanceID,
            [r EXCEPT !.drawParameters = Append(@, drawParameters),
                      !.loaded[mapObjectID + 1].drawParameterIDs = Append(@, drawParameterID),
                      !.instanceLookupData = Append(@, instanceLookupData)])

RECURSIVE AddDrawCalls(_, _, _, _)
AddDrawCalls(i, mapObjectID, instanceID, r) ==
  LET mapObject == r.loaded[mapObjectID + 1] IN
  IF i >= Len(mapObject.renderBatches) THEN r
  ELSE LET renderBatch == mapObject.renderBatches[i + 1]
           renderBatchOffsets == mapObject.renderBatchOffsets[i + 1]
           drawParameterID == Len(r.drawParameters)
           drawParameters ==
             [ vertexOffset |-> renderBatchOffsets.baseVertexOffset,
               firstIndex |-> renderBatchOffsets.baseIndexOffset + renderBatch.startIndex,
               indexCount |-> renderBatch.indexCount,
               firstInstance |-> drawParameterID,
               instanceCount |-> 1 ]
           instanceLookupData ==
             [ loadedObjectID |-> mapObject.objectID,
               instanceID |-> instanceID,
               materialParamID |-> mapObject.materialParameterIDs[i + 1],
               cullingDataID |-> mapObject.baseCullingDataOffset,
               vertexColorTextureID0 |-> mapObject.vertexColorTextureIDs[1] % 65536,
               vertexColorTextureID1 |-> mapObject.vertexColorTextureIDs[2] % 65536,
               vertexOffset |-> renderBatchOffsets.baseVertexOffset,
               vertexColor1Offset |-> renderBatchOffsets.baseVertexColor1Offset,
               vertexColor2Offset |-> renderBatchOffsets.baseVertexColor2Offset ]
       IN AddDrawCalls(i + 1, mapObjectID, instanceID,
            [r EXCEPT !.drawParameters = Append(@, drawParameters),
                      !.loaded[mapObjectID + 1].drawParameterIDs = Append(@, drawParameterID),
                      !.instanceLookupData = Append(@, instanceLookupData)])

\* the instance numbered within its model, not within the instance array
AddInstancePerModelID(r, mapObjectID, placementID) ==
  LET instanceID == Len(r.instances)
      r1 == [r EXCEPT !.loaded[mapObjectID + 1].instanceIDs = Append(@, instanceID),
                      !.instances = Append(@, [instanceMatrix |->
                                                 InstanceMatrix(PlacementTable[placementID])])]
      r2 == AddDrawCalls(0, mapObjectID, r.loaded[mapObjectID + 1].instanceCount, r1)
  IN [r2 EXCEPT !.loaded[mapObjectID + 1].instanceCount = @ + 1]

\* the instance written over the first one when there is one
AddInstanceOverFirst(r, mapObjectID, placementID) ==
  LET instanceID == Len(r.instances)
      instance == [instanceMatrix |-> InstanceMatrix(PlacementTable[placementID])]
      r1 == [r EXCEPT !.loaded[mapObjectID + 1].instanceIDs = Append(@, instanceID),
                      !.instances = IF @ = <<>> THEN <<instance>>
                                    ELSE Append([@ EXCEPT ![1] = instance], instance)]
      r2 == AddDrawCalls(0, mapObjectID, instanceID, r1)
  IN [r2 EXCEPT !.loaded[mapObjectID + 1].instanceCount = @ + 1]

\* the instance added without counting it
AddInstanceUncounted(r, mapObjectID, placementID) ==
  LET instanceID == Len(r.instances)
      r1 == [r EXCEPT !.loaded[mapObjectID + 1].instanceIDs = Append(@, instanceID),
                      !.instances = Append(@, [instanceMatrix |->
                                                 InstanceMatrix(PlacementTable[placementID])])]
  IN AddDrawCalls(0, mapObjectID, instanceID, r1)

AddInstance(r, mapObjectID, placementID) ==
  LET instanceID == Len(r.instances)
      r1 == [r EXCEPT !.loaded[mapObjectID + 1].instanceIDs = Append(@, instanceID),
                      !.instances = Append(@, [instanceMatrix |->
                                                 InstanceMatrix(PlacementTable[placementID])])]
      r2 == AddDrawCalls(0, mapObjectID, instanceID, r1)
  IN [r2 EXCEPT !.loaded[mapObjectID + 1].instanceCount = @ + 1]

(***************************************************************************)
(* MapObjectRenderer::ExecuteLoad, the loop over the pending placements.   *)
(* r holds the CPU-side arrays; fs gives what is on disk for each name.    *)
(***************************************************************************)
LoaderState(r, mapObject) ==
  [ materials |-> r.materials, textures |-> r.textures, indices |-> r.indices,
    vertices |-> r.vertices, materialParameters |-> r.materialParameters,
    cullingData |-> r.cullingData, mo |-> mapObject ]

\* the shared arrays as the load left them; the loaded list is untouched
WithShared(r, st) ==
  [r EXCEPT !.materials = st.materials, !.textures = st.textures,
            !.indices = st.indices, !.vertices = st.vertices,
            !.materialParameters = st.materialParameters,
            !.cullingData = st.cullingData]

\* the load without the look-up of the name hash
LoadPlacementAlways(r, entry, fs) ==
  LET mapObjectID == Len(r.loaded)
      res == LoadMapObject(entry.nmorName, fs[entry.nmorName],
                           LoaderState(r, NewLoadedMapObject(mapObjectID)))
      loaded == [WithShared(r, res.st) EXCEPT
                   !.loaded = Append(@, res.st.mo),
                   !.nameHashToIndexMap = (entry.nmorNameHash :> mapObjectID) @@ @,
                   !.fileLoads = Append(@, entry.nmorNameHash)]
  IN IF ~res.ok THEN WithShared(r, res.st)
     ELSE AddInstance([loaded EXCEPT !.details =
                         Append(@, [loadedIndex |-> mapObjectID,
                                    instanceIndex |-> Len(r.instances)])],
                      mapObjectID, entry.placement)

\* the placement details recorded before the model is loaded
LoadPlacementDetailsFirst(r, entry, fs) ==
  LET Details(rr, mapObjectID) ==
        [rr EXCEPT !.details = Append(@, [loadedIndex |-> mapObjectID,
                                          instanceIndex |-> Len(rr.instances)])]
  IN
  IF entry.nmorNameHash \notin DOMAIN r.nameHashToIndexMap
  THEN LET mapObjectID == Len(r.loaded)
           res == LoadMapObject(entry.nmorName, fs[entry.nmorName],
                                LoaderState(r, NewLoadedMapObject(mapObjectID)))
       IN IF ~res.ok
          THEN Details(WithShared(r, res.st), mapObjectID)
          ELSE AddInstance(
                 Details([WithShared(r, res.st) EXCEPT
                            !.loaded = Append(@, res.st.mo),
                            !.nameHashToIndexMap = (entry.nmorNameHash :> mapObjectID) @@ @,
                            !.fileLoads = Append(@, entry.nmorNameHash)],
                         mapObjectID),
                 mapObjectID, entry.placement)
  ELSE AddInstance(Details(r, r.nameHashToIndexMap[entry.nmorNameHash]),
                   r.nameHashToIndexMap[entry.nmorNameHash], entry.placement)

LoadPlacement(r, entry, fs) ==
  LET AddPlacement(rr, mapObjectID) ==
        AddInstance([rr EXCEPT !.details =
                       Append(@, [loadedIndex |-> mapObjectID,
                                  instanceIndex |-> Len(rr.instances)])],
                    mapObjectID, entry.placement)
  IN
  IF entry.nmorNameHash \notin DOMAIN r.nameHashToIndexMap
  THEN LET mapObjectID == Len(r.loaded)
           res == LoadMapObject(entry.nmorName, fs[entry.nmorName],
                                LoaderState(r, NewLoadedMapObject(mapObjectID)))
       IN IF ~res.ok
          THEN \* pop_back and continue
               WithShared(r, res.st)
          ELSE AddPlacement(
                 [WithShared(r, res.st) EXCEPT
                    !.loaded = Append(@, res.st.mo),
                    !.nameHashToIndexMap = (entry.nmorNameHash :> mapObjectID) @@ @,
                    !.fileLoads = Append(@, entry.nmorNameHash)],
                 mapObjectID)
  ELSE AddPlacement(r, r.nameHashToIndexMap[entry.nmorNameHash])

\* the loop left at the first placement that fails to load
RECURSIVE LoadPlacementsUntilFailure(_, _, _)
LoadPlacementsUntilFailure(r, queue, fs) ==
  IF queue = <<>> THEN r
  ELSE LET next == LoadPlacement(r, queue[1], fs) IN
       IF Len(next.instances) = Len(r.instances) THEN next
       ELSE LoadPlacementsUntilFailure(next, Tail(queue), fs)

RECURSIVE LoadPlacements(_, _, _)
LoadPlacements(r, queue, fs) ==
  IF queue = <<>> THEN r
  ELSE LoadPlacements(LoadPlacement(r, queue[1], fs), Tail(queue), fs)

(***************************************************************************)
(* State.                                                                  *)
(***************************************************************************)
VARIABLES
  \* MapObjectRenderer, CPU side
  _uniqueIdCounter,            \* uniqueID -> u8 count of registrations
  _mapChunkToPlacementOffset,  \* chunkID -> u16 offset
  _mapObjectsToBeLoaded,       \* the pending queue
  _mapObjectPlacementDetails,
  _loadedMapObjects,
  _nameHashToIndexMap,
  _indices, _vertices,
  _drawParameters, _instances, _instanceLookupData,
  _materials, _materialParameters, _cullingData,
  _mapObjectTextures,          \* the texture array
  _numTriangles, _numSurvivingDrawCalls, _numSurvivingTriangles,
  \* MapObjectRenderer, GPU side
  handles,                     \* member name -> BufferID
  _passDescriptorSet, _cullingDescriptorSet,
  _cullingConstantBuffer,
  \* ClientRenderer
  _frameIndex, firstFrame, framePhase,
  \* Renderer: buffers, destroy queue, frames submitted to the GPU
  nextBufferID, buffers, destroyQueue, inFlight,
  \* history: successful file loads since the last Clear, the number of
  \* buffer rebuilds, registration calls and Clear calls, the last operation,
  \* the frame whose pass copied the counters last and what it copied
  fileLoads, rebuilds, registerCalls, clears, frames, lastOp, lastReadBack,
  \* CModelRenderer: the instances of animated models, their bone ranges and
  \* the two range allocators, the bone instances, the animation requests
  _cmodelInstances,
  _instanceBoneDeformRangeFrames, _instanceBoneInstanceRangeFrames,
  _animationBoneDeformRangeAllocator, _animationBoneInstancesRangeAllocator,
  _animationBoneInstances,
  _animationRequests,
  \* the render thread in CModelRenderer::Update: where it is, and the next
  \* instance to animate
  animPhase, animCursor,
  \* history: the requests enqueued so far, how often each was taken from the
  \* queue, the requests pending when the drain started, the frames updated,
  \* the last animation operation
  requestCount, taken, drainSnapshot, animFrames, lastAnim,
  \* GPU: the frame-sync semaphores that are signalled, the submitted frames
  \* whose commands the GPU is executing
  semaphores, gpuRunning,
  \* _depthPyramid: the rendered frame whose pyramid pass built it, Unbuilt
  \* as long as none did
  depthPyramid,
  \* history: for each chunk registered, the placement it queued first
  \* (NoPlacement when it queued none)
  firstQueued,
  \* ScriptHandler: the files LoadScriptDirectory went over, what LoadScript
  \* returned for each, the number it reported as loaded
  scriptFiles, scriptResults, scriptCount

cpuVars ==
  << _uniqueIdCounter, _mapChunkToPlacementOffset, _mapObjectsToBeLoaded,
     _mapObjectPlacementDetails, _loadedMapObjects, _nameHashToIndexMap,
     _indices, _vertices, _drawParameters, _instances, _instanceLookupData,
     _materials, _materialParameters, _cullingData, _mapObjectTextures, _numTriangles >>
statVars == << _numSurvivingDrawCalls, _numSurvivingTriangles >>
gpuVars == << handles, _passDescriptorSet, _cullingDescriptorSet >>
frameVars == << _frameIndex, firstFrame >>
rendererVars == << nextBufferID, buffers, destroyQueue >>
scriptVars == << scriptFiles, scriptResults, scriptCount >>
syncVars == << semaphores, gpuRunning, depthPyramid >>
animVars ==
  << _cmodelInstances, _instanceBoneDeformRangeFrames, _instanceBoneInstanceRangeFrames,
     _animationBoneDeformRangeAllocator, _animationBoneInstancesRangeAllocator,
     _animationBoneInstances, _animationRequests, animPhase, animCursor,
     requestCount, taken, drainSnapshot, animFrames, lastAnim >>
loaderVars ==
  << cpuVars, statVars, gpuVars, _cullingConstantBuffer, frameVars, framePhase,
     rendererVars, inFlight, fileLoads, rebuilds, registerCalls, clears, frames, lastOp,
     lastReadBack >>
vars == << loaderVars, animVars, syncVars, firstQueued, scriptVars >>

\* the CPU-side arrays as one record, for the operators of the load
CpuArrays ==
  [ loaded |-> _loadedMapObjects,
    nameHashToIndexMap |-> _nameHashToIndexMap,
    details |-> _mapObjectPlacementDetails,
    instances |-> _instances,
    drawParameters |-> _drawParameters,
    instanceLookupData |-> _instanceLookupData,
    materials |-> _materials,
    materialParameters |-> _materialParameters,
    cullingData |-> _cullingData,
    indices |-> _indices,
    vertices |-> _vertices,
    textures |-> _mapObjectTextures,
    fileLoads |-> fileLoads ]

EmptyMap == [x \in {} |-> 0]

(***************************************************************************)
(* Renderer: buffers and the destroy queue.                                *)
(***************************************************************************)
\* frames a queued buffer outlives: the number of frames in flight
FramesInFlight == 2

\* rs: [next, buffers, destroyQueue, calls]
CreateBuffer(rs, name, data) ==
  [rs EXCEPT !.next = @ + 1,
             !.buffers = (rs.next :> [name |-> name, data |-> data]) @@ @,
             !.calls = Append(@, [call |-> "CreateBuffer", buffer |-> rs.next, src |-> Invalid])]

QueueDestroyBuffer(rs, id) ==
  [rs EXCEPT !.destroyQueue = Append(@, [buffer |-> id, frames |-> FramesInFlight]),
             !.calls = Append(@, [call |-> "QueueDestroyBuffer", buffer |-> id, src |-> Invalid])]

\* the staging buffer is mapped and the CPU array copied into it
UploadToStaging(rs, id, data) ==
  [rs EXCEPT !.buffers[id].data = data,
             !.calls = Append(@, [call |-> "MapBuffer", buffer |-> id, src |-> Invalid])]

CopyBuffer(rs, dst, src) ==
  [rs EXCEPT !.buffers[dst].data = rs.buffers[src].data,
             !.calls = Append(@, [call |-> "CopyBuffer", buffer |-> dst, src |-> src])]

\* Renderer::FlipFrame: a queued buffer is destroyed once FramesInFlight
\* frames have been started after it was queued
FlipDestroyQueue(queue) ==
  LET aged == [i \in 1..Len(queue) |-> [queue[i] EXCEPT !.frames = @ - 1]]
  IN SelectSeq(aged, LAMBDA e : e.frames > 0)

Destroyed(queue) ==
  {queue[i].buffer : i \in {j \in 1..Len(queue) : queue[j].frames <= 1}}

Restrict(f, S) == [x \in S |-> f[x]]

(***************************************************************************)
(* MapObjectRenderer::CreateBuffers                                        *)
(***************************************************************************)
PassBindings ==
  {"_packedInstanceLookup", "_packedVertices", "_instanceData",
   "_packedMaterialData", "_packedMaterialParams"}
CullingBindings ==
  {"_packedInstanceLookup", "_instanceData", "_packedCullingData",
   "_drawCommands", "_culledDrawCommands", "_drawCount", "_triangleCount"}

HandleNames ==
  {"_instanceLookupBuffer", "_argumentBuffer", "_culledArgumentBuffer",
   "_drawCountBuffer", "_drawCountReadBackBuffer",
   "_triangleCountBuffer", "_triangleCountReadBackBuffer",
   "_vertexBuffer", "_indexBuffer", "_instanceBuffer", "_materialBuffer",
   "_materialParametersBuffer", "_cullingDataBuffer"}

\* the block with the old buffer destroyed at once instead of queued
RebuildBufferDestroyNow(g, handle, data, passNames, cullNames) ==
  LET rs0 == IF g.h[handle] # Invalid
             THEN [g.rs EXCEPT !.buffers = Restrict(@, DOMAIN @ \ {g.h[handle]})]
             ELSE g.rs
      device == rs0.next
      rs1 == CreateBuffer(rs0, handle, <<>>)
      staging == rs1.next
      rs2 == CreateBuffer(rs1, "staging", <<>>)
      rs3 == UploadToStaging(rs2, staging, data)
      rs4 == QueueDestroyBuffer(rs3, staging)
      rs5 == CopyBuffer(rs4, device, staging)
  IN [ h |-> [g.h EXCEPT ![handle] = device],
       pass |-> [n \in PassBindings |-> IF n \in passNames THEN device ELSE g.pass[n]],
       cull |-> [n \in CullingBindings |-> IF n \in cullNames THEN device ELSE g.cull[n]],
       rs |-> rs5 ]

\* the block that issues the copy before the staging buffer is filled
RebuildBufferCopyFirst(g, handle, data, passNames, cullNames) ==
  LET rs0 == IF g.h[handle] # Invalid THEN QueueDestroyBuffer(g.rs, g.h[handle]) ELSE g.rs
      device == rs0.next
      rs1 == CreateBuffer(rs0, handle, <<>>)
      staging == rs1.next
      rs2 == CreateBuffer(rs1, "staging", <<>>)
      rs3 == CopyBuffer(rs2, device, staging)
      rs4 == UploadToStaging(rs3, staging, data)
      rs5 == QueueDestroyBuffer(rs4, staging)
  IN [ h |-> [g.h EXCEPT ![handle] = device],
       pass |-> [n \in PassBindings |-> IF n \in passNames THEN device ELSE g.pass[n]],
       cull |-> [n \in CullingBindings |-> IF n \in cullNames THEN device ELSE g.cull[n]],
       rs |-> rs5 ]

\* the block that leaves the descriptor sets bound to the old buffer
RebuildBufferKeepBinding(g, handle, data, passNames, cullNames) ==
  LET rs0 == IF g.h[handle] # Invalid THEN QueueDestroyBuffer(g.rs, g.h[handle]) ELSE g.rs
      device == rs0.next
      rs1 == CreateBuffer(rs0, handle, <<>>)
      staging == rs1.next
      rs2 == CreateBuffer(rs1, "staging", <<>>)
      rs3 == UploadToStaging(rs2, staging, data)
      rs4 == QueueDestroyBuffer(rs3, staging)
      rs5 == CopyBuffer(rs4, device, staging)
  IN [ h |-> [g.h EXCEPT ![handle] = device],
       pass |-> [n \in PassBindings |->
                   IF n \in passNames /\ g.pass[n] = Invalid THEN device ELSE g.pass[n]],
       cull |-> [n \in CullingBindings |->
                   IF n \in cullNames /\ g.cull[n] = Invalid THEN device ELSE g.cull[n]],
       rs |-> rs5 ]

\* g: [h (handles), pass, cull, rs]
\* One block of CreateBuffers: queue the old buffer, create the new one and
\* its staging buffer, upload, queue the staging buffer, copy, bind.
RebuildBuffer(g, handle, data, passNames, cullNames) ==
  LET rs0 == IF g.h[handle] # Invalid THEN QueueDestroyBuffer(g.rs, g.h[handle]) ELSE g.rs
      device == rs0.next
      rs1 == CreateBuffer(rs0, handle, <<>>)
      staging == rs1.next
      rs2 == CreateBuffer(rs1, "staging", <<>>)
      rs3 == UploadToStaging(rs2, staging, data)
      rs4 == QueueDestroyBuffer(rs3, staging)
      rs5 == CopyBuffer(rs4, device, staging)
  IN [ h |-> [g.h EXCEPT ![handle] = device],
       pass |-> [n \in PassBindings |-> IF n \in passNames THEN device ELSE g.pass[n]],
       cull |-> [n \in CullingBindings |-> IF n \in cullNames THEN device ELSE g.cull[n]],
       rs |-> rs5 ]

\* a counter and its read-back buffer are created once; their memory is
\* whatever the allocation holds (uninit)
CreateCounter(g, handle, readBack, uninit) ==
  IF g.h[handle] # Invalid THEN g
  ELSE LET rs1 == CreateBuffer(g.rs, handle, <<uninit>>)
           rs2 == CreateBuffer(rs1, readBack, <<uninit>>)
       IN [g EXCEPT !.h = [@ EXCEPT ![handle] = g.rs.next, ![readBack] = rs1.next],
                    !.rs = rs2]

CreateBuffers(g, r, uninit) ==
  LET g1 == RebuildBuffer(g, "_instanceLookupBuffer", r.instanceLookupData,
                          {"_packedInstanceLookup"}, {"_packedInstanceLookup"})
      g2 == RebuildBuffer(g1, "_argumentBuffer", r.drawParameters, {}, {})
      g3 == RebuildBuffer(g2, "_culledArgumentBuffer", r.drawParameters, {}, {})
      g4 == CreateCounter(g3, "_drawCountBuffer", "_drawCountReadBackBuffer", uninit)
      g5 == CreateCounter(g4, "_triangleCountBuffer", "_triangleCountReadBackBuffer", uninit)
      g6 == RebuildBuffer(g5, "_vertexBuffer", r.vertices, {"_packedVertices"}, {})
      g7 == RebuildBuffer(g6, "_indexBuffer", r.indices, {}, {})
      g8 == RebuildBuffer(g7, "_instanceBuffer", r.instances,
                          {"_instanceData"}, {"_instanceData"})
      g9 == RebuildBuffer(g8, "_materialBuffer", r.materials, {"_packedMaterialData"}, {})
      g10 == RebuildBuffer(g9, "_materialParametersBuffer", r.materialParameters,
                           {"_packedMaterialParams"}, {})
  IN RebuildBuffer(g10, "_cullingDataBuffer", r.cullingData, {}, {"_packedCullingData"})

\* the triangles of a list of draw parameters
RECURSIVE CountTriangles(_)
CountTriangles(drawParameters) ==
  IF drawParameters = <<>> THEN 0
  ELSE (drawParameters[1].indexCount \div 3) + CountTriangles(Tail(drawParameters))

(***************************************************************************)
(* Init: the state after the constructors.                                 *)
(***************************************************************************)
\* cvars: the configuration values and window state the operation read
NoCVars == [cullingEnabled |-> FALSE, lockFrustum |-> FALSE, minimized |-> FALSE]
NoOp ==
  [op |-> "none", fs |-> EmptyMap, calls |-> <<>>, arg |-> 0, cvars |-> NoCVars]

\* CModelRenderer::AnimationRequest with the number it was enqueued under
NoRequest ==
  [id |-> 0, instanceId |-> 0, sequenceId |-> 0, isPlaying |-> FALSE, isLooping |-> FALSE]
\* writes: the bone instances written; sequenceReads: the entries of the
\* sequence table read
NoAnim == [op |-> "none", request |-> NoRequest, writes |-> {}, sequenceReads |-> {}]

\* the depth pyramid image as CreateImage leaves it
Unbuilt == 0

Init ==
  /\ _uniqueIdCounter = EmptyMap
  /\ _mapChunkToPlacementOffset = EmptyMap
  /\ _mapObjectsToBeLoaded = <<>>
  /\ _mapObjectPlacementDetails = <<>>
  /\ _loadedMapObjects = <<>>
  /\ _nameHashToIndexMap = EmptyMap
  /\ _indices = <<>>
  /\ _vertices = <<>>
  /\ _drawParameters = <<>>
  /\ _instances = <<>>
  /\ _instanceLookupData = <<>>
  /\ _materials = <<>>
  /\ _materialParameters = <<>>
  /\ _cullingData = <<>>
  /\ _mapObjectTextures = <<0>>      \* the 1x1 black texture
  /\ _numTriangles = 0
  /\ _numSurvivingDrawCalls = 0
  /\ _numSurvivingTriangles = 0
  /\ handles = [h \in HandleNames |-> Invalid]
  /\ _passDescriptorSet = [n \in PassBindings |-> Invalid]
  /\ _cullingDescriptorSet = [n \in CullingBindings |-> Invalid]
  /\ _cullingConstantBuffer =
       [ resource |-> [maxDrawCount |-> 0, written |-> FALSE],
         applied |-> << [maxDrawCount |-> 0, written |-> FALSE],
                        [maxDrawCount |-> 0, written |-> FALSE] >> ]
  /\ _frameIndex = 0
  /\ firstFrame = TRUE
  /\ framePhase = "update"
  /\ nextBufferID = 1
  /\ buffers = EmptyMap
  /\ destroyQueue = <<>>
  /\ inFlight = <<>>
  /\ fileLoads = <<>>
  /\ rebuilds = 0
  /\ registerCalls = 0
  /\ clears = 0
  /\ frames = 0
  /\ lastOp = NoOp
  /\ lastReadBack = [frame |-> 0, drawCount |-> 0, triangleCount |-> 0]
  /\ _cmodelInstances = <<>>
  /\ _instanceBoneDeformRangeFrames = <<>>
  /\ _instanceBoneInstanceRangeFrames = <<>>
  /\ _animationBoneDeformRangeAllocator = [size |-> 0, free |-> {}]
  /\ _animationBoneInstancesRangeAllocator = [size |-> 0, free |-> {}]
  /\ _animationBoneInstances = <<>>
  /\ _animationRequests = <<>>
  /\ animPhase = "idle"
  /\ animCursor = 0
  /\ requestCount = 0
  /\ taken = <<>>
  /\ drainSnapshot = {}
  /\ animFrames = 0
  /\ lastAnim = NoAnim
  /\ semaphores = {}
  /\ gpuRunning = {}
  /\ depthPyramid = Unbuilt
  /\ firstQueued = EmptyMap
  /\ scriptFiles = <<>>
  /\ scriptResults = <<>>
  /\ scriptCount = 0

(***************************************************************************)
(* MapObjectRenderer::RegisterMapObjectToBeLoaded (one placement)          *)
(***************************************************************************)
CounterOf(counter, uniqueID) == IF uniqueID \in DOMAIN counter THEN counter[uniqueID] ELSE 0

\* _uniqueIdCounter[uniqueID]++ on the u8 counter
Increment(counter, uniqueID) ==
  (uniqueID :> ((CounterOf(counter, uniqueID) + 1) % 256)) @@ counter

ToBeLoaded(placementID) ==
  [ placement |-> placementID,
    nmorName |-> PlacementTable[placementID].nameID,
    nmorNameHash |-> NameHash(PlacementTable[placementID].nameID) ]

\* st: [counter, queue]
RegisterPlacement(st, placementID) ==
  LET uniqueID == PlacementTable[placementID].uniqueID IN
  [ counter |-> Increment(st.counter, uniqueID),
    queue |-> IF CounterOf(st.counter, uniqueID) = 0
              THEN Append(st.queue, ToBeLoaded(placementID))
              ELSE st.queue ]

RECURSIVE RegisterAll(_, _)
RegisterAll(st, placementIDs) ==
  IF placementIDs = <<>> THEN st
  ELSE RegisterAll(RegisterPlacement(st, placementIDs[1]), Tail(placementIDs))

\* the model's bounds on what is registered
MayRegister(placementIDs) ==
  /\ registerCalls < MaxRegisterCalls
  /\ Len(_instances)
       + Len(RegisterAll([counter |-> _uniqueIdCounter, queue |-> _mapObjectsToBeLoaded],
                         placementIDs).queue) <= MaxInstances

RegisterMapObjectToBeLoaded(placementID) ==
  /\ framePhase = "update"
  /\ MayRegister(<<placementID>>)
  /\ LET st == RegisterPlacement([counter |-> _uniqueIdCounter,
                                  queue |-> _mapObjectsToBeLoaded], placementID)
     IN /\ _uniqueIdCounter' = st.counter
        /\ _mapObjectsToBeLoaded' = st.queue
  /\ registerCalls' = registerCalls + 1
  /\ lastOp' = [NoOp EXCEPT !.op = "Register", !.arg = placementID]
  /\ UNCHANGED << _mapChunkToPlacementOffset, _mapObjectPlacementDetails, _loadedMapObjects,
                  _nameHashToIndexMap, _indices, _vertices, _drawParameters, _instances,
                  _instanceLookupData, _materials, _materialParameters, _cullingData,
                  _mapObjectTextures, _numTriangles, statVars, gpuVars,
                  _cullingConstantBuffer, frameVars, framePhase, rendererVars,
                  inFlight, lastReadBack, animVars, scriptVars, syncVars, firstQueued, fileLoads, rebuilds, clears, frames >>

\* the same registration, with the number of calls bounded by MaxRepeats
RegisterRepeatedly(placementID) ==
  /\ framePhase = "update"
  /\ registerCalls < MaxRepeats
  /\ LET st == RegisterPlacement([counter |-> _uniqueIdCounter,
                                  queue |-> _mapObjectsToBeLoaded], placementID)
     IN /\ Len(_instances) + Len(st.queue) <= MaxInstances
        /\ _uniqueIdCounter' = st.counter
        /\ _mapObjectsToBeLoaded' = st.queue
  /\ registerCalls' = registerCalls + 1
  /\ lastOp' = [NoOp EXCEPT !.op = "Register", !.arg = placementID]
  /\ UNCHANGED << _mapChunkToPlacementOffset, _mapObjectPlacementDetails, _loadedMapObjects,
                  _nameHashToIndexMap, _indices, _vertices, _drawParameters, _instances,
                  _instanceLookupData, _materials, _materialParameters, _cullingData,
                  _mapObjectTextures, _numTriangles, statVars, gpuVars,
                  _cullingConstantBuffer, frameVars, framePhase, rendererVars,
                  inFlight, lastReadBack, animVars, scriptVars, syncVars, firstQueued, fileLoads, rebuilds, clears, frames >>

(***************************************************************************)
(* MapObjectRenderer::RegisterMapObjectsToBeLoaded (the placements of a    *)
(* chunk)                                                                  *)
(***************************************************************************)
RegisterMapObjectsToBeLoaded(chunkID) ==
  /\ framePhase = "update"
  /\ MayRegister(ChunkTable[chunkID])
  /\ _mapChunkToPlacementOffset' =
       (chunkID :> (Len(_mapObjectsToBeLoaded) % 65536)) @@ _mapChunkToPlacementOffset
  /\ LET st == RegisterAll([counter |-> _uniqueIdCounter, queue |-> _mapObjectsToBeLoaded],
                           ChunkTable[chunkID])
     IN /\ _uniqueIdCounter' = st.counter
        /\ _mapObjectsToBeLoaded' = st.queue
        /\ firstQueued' =
             (chunkID :> (IF Len(st.queue) > Len(_mapObjectsToBeLoaded)
                          THEN st.queue[Len(_mapObjectsToBeLoaded) + 1].placement
                          ELSE NoPlacement)) @@ firstQueued
  /\ registerCalls' = registerCalls + 1
  /\ lastOp' = [NoOp EXCEPT !.op = "RegisterChunk", !.arg = chunkID]
  /\ UNCHANGED << _mapObjectPlacementDetails, _loadedMapObjects,
                  _nameHashToIndexMap, _indices, _vertices, _drawParameters, _instances,
                  _instanceLookupData, _materials, _materialParameters, _cullingData,
                  _mapObjectTextures, _numTriangles, statVars, gpuVars,
                  _cullingConstantBuffer, frameVars, framePhase, rendererVars,
                  inFlight, lastReadBack, animVars, scriptVars, syncVars, fileLoads, rebuilds, clears, frames >>

(***************************************************************************)
(* MapObjectRenderer::ExecuteLoad                                          *)
(***************************************************************************)
\* what a buffer allocation may hold before it is first written
UninitValues == {0, 9}

\* the names whose files this batch may read
NamesToLoad ==
  { _mapObjectsToBeLoaded[i].nmorName : i \in
      { j \in 1..Len(_mapObjectsToBeLoaded) :
          _mapObjectsToBeLoaded[j].nmorNameHash \notin DOMAIN _nameHashToIndexMap } }

\* what is on disk for the names: any state of one asset, the others being
\* there or not
FileSystems(names, variants) ==
  { fs \in [names -> variants] :
      Cardinality({n \in names : fs[n] \notin {"ok", "missing"}}) <= 1 }

\* the load that leaves the consumed placements in the pending queue
ExecuteLoadBodyKeepQueue(fs, uninit) ==
  \E r \in {LoadPlacements(CpuArrays, _mapObjectsToBeLoaded, fs)} :
  \E g \in {CreateBuffers([ h |-> handles, pass |-> _passDescriptorSet,
                           cull |-> _cullingDescriptorSet,
                           rs |-> [ next |-> nextBufferID, buffers |-> buffers,
                                    destroyQueue |-> destroyQueue, calls |-> <<>> ] ],
                         r, uninit)} :
     /\ _mapObjectPlacementDetails' = r.details
     /\ _loadedMapObjects' = r.loaded
     /\ _nameHashToIndexMap' = r.nameHashToIndexMap
     /\ _indices' = r.indices
     /\ _vertices' = r.vertices
     /\ _drawParameters' = r.drawParameters
     /\ _instances' = r.instances
     /\ _instanceLookupData' = r.instanceLookupData
     /\ _materials' = r.materials
     /\ _materialParameters' = r.materialParameters
     /\ _cullingData' = r.cullingData
     /\ _mapObjectTextures' = r.textures
     /\ fileLoads' = r.fileLoads
     /\ handles' = g.h
     /\ _passDescriptorSet' = g.pass
     /\ _cullingDescriptorSet' = g.cull
     /\ nextBufferID' = g.rs.next
     /\ buffers' = g.rs.buffers
     /\ destroyQueue' = g.rs.destroyQueue
     /\ _mapObjectsToBeLoaded' = _mapObjectsToBeLoaded
     /\ _numTriangles' = CountTriangles(r.drawParameters)
     /\ rebuilds' = rebuilds + 1
     /\ UNCHANGED << registerCalls, clears, frames >>
     /\ lastOp' = [NoOp EXCEPT !.op = "ExecuteLoad",
                               !.fs = fs, !.calls = g.rs.calls]
     /\ UNCHANGED << _uniqueIdCounter, _mapChunkToPlacementOffset, statVars,
                     _cullingConstantBuffer, frameVars, framePhase, inFlight, lastReadBack, animVars, scriptVars, syncVars, firstQueued >>

\* the load that counts the triangles of the batch it appended alone
ExecuteLoadBodyCountBatch(fs, uninit) ==
  \E r \in {LoadPlacements(CpuArrays, _mapObjectsToBeLoaded, fs)} :
  \E g \in {CreateBuffers([ h |-> handles, pass |-> _passDescriptorSet,
                           cull |-> _cullingDescriptorSet,
                           rs |-> [ next |-> nextBufferID, buffers |-> buffers,
                                    destroyQueue |-> destroyQueue, calls |-> <<>> ] ],
                         r, uninit)} :
     /\ _mapObjectPlacementDetails' = r.details
     /\ _loadedMapObjects' = r.loaded
     /\ _nameHashToIndexMap' = r.nameHashToIndexMap
     /\ _indices' = r.indices
     /\ _vertices' = r.vertices
     /\ _drawParameters' = r.drawParameters
     /\ _instances' = r.instances
     /\ _instanceLookupData' = r.instanceLookupData
     /\ _materials' = r.materials
     /\ _materialParameters' = r.materialParameters
     /\ _cullingData' = r.cullingData
     /\ _mapObjectTextures' = r.textures
     /\ fileLoads' = r.fileLoads
     /\ handles' = g.h
     /\ _passDescriptorSet' = g.pass
     /\ _cullingDescriptorSet' = g.cull
     /\ nextBufferID' = g.rs.next
     /\ buffers' = g.rs.buffers
     /\ destroyQueue' = g.rs.destroyQueue
     /\ _mapObjectsToBeLoaded' = <<>>
     /\ _numTriangles' = CountTriangles(SubSeq(r.drawParameters, Len(_drawParameters) + 1,
                                               Len(r.drawParameters)))
     /\ rebuilds' = rebuilds + 1
     /\ UNCHANGED << registerCalls, clears, frames >>
     /\ lastOp' = [NoOp EXCEPT !.op = "ExecuteLoad",
                               !.fs = fs, !.calls = g.rs.calls]
     /\ UNCHANGED << _uniqueIdCounter, _mapChunkToPlacementOffset, statVars,
                     _cullingConstantBuffer, frameVars, framePhase, inFlight, lastReadBack, animVars, scriptVars, syncVars, firstQueued >>

ExecuteLoadBody(fs, uninit) ==
  \E r \in {LoadPlacements(CpuArrays, _mapObjectsToBeLoaded, fs)} :
  \E g \in {CreateBuffers([ h |-> handles, pass |-> _passDescriptorSet,
                           cull |-> _cullingDescriptorSet,
                           rs |-> [ next |-> nextBufferID, buffers |-> buffers,
                                    destroyQueue |-> destroyQueue, calls |-> <<>> ] ],
                         r, uninit)} :
     /\ _mapObjectPlacementDetails' = r.details
     /\ _loadedMapObjects' = r.loaded
     /\ _nameHashToIndexMap' = r.nameHashToIndexMap
     /\ _indices' = r.indices
     /\ _vertices' = r.vertices
     /\ _drawParameters' = r.drawParameters
     /\ _instances' = r.instances
     /\ _instanceLookupData' = r.instanceLookupData
     /\ _materials' = r.materials
     /\ _materialParameters' = r.materialParameters
     /\ _cullingData' = r.cullingData
     /\ _mapObjectTextures' = r.textures
     /\ fileLoads' = r.fileLoads
     /\ handles' = g.h
     /\ _passDescriptorSet' = g.pass
     /\ _cullingDescriptorSet' = g.cull
     /\ nextBufferID' = g.rs.next
     /\ buffers' = g.rs.buffers
     /\ destroyQueue' = g.rs.destroyQueue
     /\ _mapObjectsToBeLoaded' = <<>>
     /\ _numTriangles' = CountTriangles(r.drawParameters)
     /\ rebuilds' = rebuilds + 1
     /\ UNCHANGED << registerCalls, clears, frames >>
     /\ lastOp' = [NoOp EXCEPT !.op = "ExecuteLoad",
                               !.fs = fs, !.calls = g.rs.calls]
     /\ UNCHANGED << _uniqueIdCounter, _mapChunkToPlacementOffset, statVars,
                     _cullingConstantBuffer, frameVars, framePhase, inFlight, lastReadBack, animVars, scriptVars, syncVars, firstQueued >>

ExecuteLoadEmpty ==
  /\ lastOp' = [NoOp EXCEPT !.op = "ExecuteLoad"]
  /\ UNCHANGED << cpuVars, statVars, gpuVars, _cullingConstantBuffer, frameVars,
                  framePhase, rendererVars, inFlight, lastReadBack, animVars, scriptVars, syncVars, firstQueued, fileLoads, rebuilds, registerCalls, clears, frames >>

\* the load without the early return on an empty queue
ExecuteLoadAlwaysRebuild(variants) ==
  /\ framePhase = "update"
  /\ rebuilds < MaxRebuilds
  /\ \E fs \in FileSystems(NamesToLoad, variants) :
       \E uninit \in (IF handles["_drawCountBuffer"] = Invalid
                      THEN UninitValues ELSE {0}) :
         ExecuteLoadBody(fs, uninit)

\* variants: what the files of the batch may be
ExecuteLoad(variants) ==
  /\ framePhase = "update"
  /\ IF Len(_mapObjectsToBeLoaded) = 0
     THEN ExecuteLoadEmpty
     ELSE /\ rebuilds < MaxRebuilds
          /\ \E fs \in FileSystems(NamesToLoad, variants) :
               \E uninit \in (IF handles["_drawCountBuffer"] = Invalid
                              THEN UninitValues ELSE {0}) :
                 ExecuteLoadBody(fs, uninit)

(***************************************************************************)
(* MapObjectRenderer::Clear                                                *)
(***************************************************************************)
\* Renderer::UnloadTexturesInArray(array, 1): all but the first texture
UnloadTexturesInArray(textures, keep) == SubSeq(textures, 1, Min2(keep, Len(textures)))

Clear ==
  /\ framePhase = "update"
  /\ clears < MaxClears
  /\ clears' = clears + 1
  /\ _uniqueIdCounter' = EmptyMap
  /\ _mapChunkToPlacementOffset' = EmptyMap
  /\ firstQueued' = EmptyMap
  /\ _mapObjectPlacementDetails' = <<>>
  /\ _loadedMapObjects' = <<>>
  /\ _nameHashToIndexMap' = EmptyMap
  /\ _indices' = <<>>
  /\ _vertices' = <<>>
  /\ _drawParameters' = <<>>
  /\ _instances' = <<>>
  /\ _instanceLookupData' = <<>>
  /\ _materials' = <<>>
  /\ _materialParameters' = <<>>
  /\ _cullingData' = <<>>
  /\ _mapObjectTextures' = UnloadTexturesInArray(_mapObjectTextures, 1)
  /\ fileLoads' = <<>>
  /\ lastOp' = [NoOp EXCEPT !.op = "Clear"]
  /\ UNCHANGED << _mapObjectsToBeLoaded, _numTriangles, statVars, gpuVars,
                  _cullingConstantBuffer, frameVars, framePhase, rendererVars,
                  inFlight, lastReadBack, animVars, scriptVars, syncVars, rebuilds, registerCalls, frames >>

(***************************************************************************)
(* MapObjectRenderer::Update                                               *)
(***************************************************************************)
\* Renderer::MapBuffer of a read-back buffer: the value now in its memory
MapBuffer(id) == buffers[id].data[1]

\* the read-back done whether or not culling is enabled
UpdateAlwaysReadBack(cullingEnabled) ==
  /\ framePhase = "update"
  /\ LET readBack == handles["_drawCountReadBackBuffer"] # Invalid
     IN /\ _numSurvivingDrawCalls' =
             IF readBack THEN MapBuffer(handles["_drawCountReadBackBuffer"])
             ELSE Len(_drawParameters)
        /\ _numSurvivingTriangles' =
             IF readBack THEN MapBuffer(handles["_triangleCountReadBackBuffer"])
             ELSE _numTriangles
  /\ framePhase' = "render"
  /\ lastOp' = [NoOp EXCEPT !.op = "Update", !.cvars.cullingEnabled = cullingEnabled]
  /\ UNCHANGED << cpuVars, gpuVars, _cullingConstantBuffer, frameVars,
                  rendererVars, inFlight, lastReadBack, animVars, scriptVars, syncVars, firstQueued, fileLoads, rebuilds, registerCalls, clears, frames >>

\* the update that keeps only the draw parameters that survived
UpdateDroppingCulled(cullingEnabled) ==
  /\ framePhase = "update"
  /\ LET numDrawCalls == Len(_drawParameters)
         readBack == cullingEnabled /\ handles["_drawCountReadBackBuffer"] # Invalid
     IN /\ _numSurvivingDrawCalls' =
             IF readBack THEN MapBuffer(handles["_drawCountReadBackBuffer"])
             ELSE numDrawCalls
        /\ _numSurvivingTriangles' =
             IF readBack THEN MapBuffer(handles["_triangleCountReadBackBuffer"])
             ELSE _numTriangles
        /\ _drawParameters' =
             IF readBack
             THEN SubSeq(_drawParameters, 1,
                         Min2(numDrawCalls, MapBuffer(handles["_drawCountReadBackBuffer"])))
             ELSE _drawParameters
  /\ framePhase' = "render"
  /\ lastOp' = [NoOp EXCEPT !.op = "Update", !.cvars.cullingEnabled = cullingEnabled]
  /\ UNCHANGED << _uniqueIdCounter, _mapChunkToPlacementOffset, _mapObjectsToBeLoaded,
                  _mapObjectPlacementDetails, _loadedMapObjects, _nameHashToIndexMap,
                  _indices, _vertices, _instances, _instanceLookupData, _materials,
                  _materialParameters, _cullingData, _mapObjectTextures, _numTriangles,
                  gpuVars, _cullingConstantBuffer, frameVars, rendererVars, inFlight,
                  lastReadBack, animVars, scriptVars, syncVars, firstQueued, fileLoads, rebuilds, registerCalls, clears,
                  frames >>

\* cullingEnabled: CVAR_MapObjectCullingEnabled as read by this call
Update(cullingEnabled) ==
  /\ framePhase = "update"
  /\ LET numDrawCalls == Len(_drawParameters)
         readBack == cullingEnabled /\ handles["_drawCountReadBackBuffer"] # Invalid
     IN /\ _numSurvivingDrawCalls' =
             IF readBack THEN MapBuffer(handles["_drawCountReadBackBuffer"])
             ELSE numDrawCalls
        /\ _numSurvivingTriangles' =
             IF readBack THEN MapBuffer(handles["_triangleCountReadBackBuffer"])
             ELSE _numTriangles
  /\ framePhase' = "render"
  /\ lastOp' = [NoOp EXCEPT !.op = "Update", !.cvars.cullingEnabled = cullingEnabled]
  /\ UNCHANGED << cpuVars, gpuVars, _cullingConstantBuffer, frameVars,
                  rendererVars, inFlight, lastReadBack, animVars, scriptVars, syncVars, firstQueued, fileLoads, rebuilds, registerCalls, clears, frames >>

(***************************************************************************)
(* MapObjectRenderer::AddMapObjectPass: the commands the execute callback  *)
(* records, with the descriptor set and constant buffer as it leaves them. *)
(***************************************************************************)
Cmd(cmd, buf, src, val, kind, set) ==
  [cmd |-> cmd, buf |-> buf, src |-> src, val |-> val, kind |-> kind, set |-> set]

FillBufferCmd(buf, val) == Cmd("FillBuffer", buf, Invalid, val, "", EmptyMap)
PipelineBarrier(kind, buf) == Cmd("PipelineBarrier", buf, Invalid, 0, kind, EmptyMap)
BindDescriptorSet(set, frameIndex) == Cmd("BindDescriptorSet", Invalid, Invalid, frameIndex, "", set)
Dispatch(groups) == Cmd("Dispatch", Invalid, Invalid, groups, "", EmptyMap)
SetIndexBuffer(buf) == Cmd("SetIndexBuffer", buf, Invalid, 0, "", EmptyMap)
DrawIndexedIndirectCount(argumentBuffer, countBuffer, maxDrawCount) ==
  Cmd("DrawIndexedIndirectCount", argumentBuffer, countBuffer, maxDrawCount, "", EmptyMap)
CopyBufferCmd(dst, src) == Cmd("CopyBuffer", dst, src, 0, "", EmptyMap)

\* the constants written when the frustum is not locked, and Apply(frameIndex)
CullingConstants(cb, drawCount, lockFrustum, frameIndex) ==
  IF lockFrustum THEN cb
  ELSE LET resource == [maxDrawCount |-> drawCount, written |-> TRUE] IN
       [ resource |-> resource,
         applied |-> [cb.applied EXCEPT ![frameIndex + 1] = resource] ]

\* the binds of the culling branch
BindCulling(set) ==
  [set EXCEPT !["_drawCommands"] = handles["_argumentBuffer"],
              !["_culledDrawCommands"] = handles["_culledArgumentBuffer"],
              !["_drawCount"] = handles["_drawCountBuffer"],
              !["_triangleCount"] = handles["_triangleCountBuffer"]]

\* the culling branch with the counters reset after the dispatch
CullCommandsResetLate(drawCount, cullingEnabled, frameIndex) ==
  IF cullingEnabled
  THEN << BindDescriptorSet(BindCulling(_cullingDescriptorSet), frameIndex),
          Dispatch((drawCount + 31) \div 32),
          FillBufferCmd(handles["_drawCountBuffer"], 0),
          FillBufferCmd(handles["_triangleCountBuffer"], 0),
          PipelineBarrier("TransferDestToComputeShaderRW", handles["_drawCountBuffer"]),
          PipelineBarrier("TransferDestToComputeShaderRW", handles["_triangleCountBuffer"]),
          PipelineBarrier("ComputeWriteToIndirectArguments", handles["_culledArgumentBuffer"]),
          PipelineBarrier("ComputeWriteToIndirectArguments", handles["_drawCountBuffer"]) >>
  ELSE << FillBufferCmd(handles["_drawCountBuffer"], drawCount),
          PipelineBarrier("TransferDestToIndirectArguments", handles["_drawCountBuffer"]) >>

\* the culling branch with the barrier on the unculled argument buffer
CullCommandsBarrierUnculled(drawCount, cullingEnabled, frameIndex) ==
  IF cullingEnabled
  THEN << FillBufferCmd(handles["_drawCountBuffer"], 0),
          FillBufferCmd(handles["_triangleCountBuffer"], 0),
          PipelineBarrier("TransferDestToComputeShaderRW", handles["_drawCountBuffer"]),
          PipelineBarrier("TransferDestToComputeShaderRW", handles["_triangleCountBuffer"]),
          BindDescriptorSet(BindCulling(_cullingDescriptorSet), frameIndex),
          Dispatch((drawCount + 31) \div 32),
          PipelineBarrier("ComputeWriteToIndirectArguments", handles["_argumentBuffer"]),
          PipelineBarrier("ComputeWriteToIndirectArguments", handles["_drawCountBuffer"]) >>
  ELSE << FillBufferCmd(handles["_drawCountBuffer"], drawCount),
          PipelineBarrier("TransferDestToIndirectArguments", handles["_drawCountBuffer"]) >>

CullCommands(drawCount, cullingEnabled, frameIndex) ==
  IF cullingEnabled
  THEN << FillBufferCmd(handles["_drawCountBuffer"], 0),
          FillBufferCmd(handles["_triangleCountBuffer"], 0),
          PipelineBarrier("TransferDestToComputeShaderRW", handles["_drawCountBuffer"]),
          PipelineBarrier("TransferDestToComputeShaderRW", handles["_triangleCountBuffer"]),
          BindDescriptorSet(BindCulling(_cullingDescriptorSet), frameIndex),
          Dispatch((drawCount + 31) \div 32),
          PipelineBarrier("ComputeWriteToIndirectArguments", handles["_culledArgumentBuffer"]),
          PipelineBarrier("ComputeWriteToIndirectArguments", handles["_drawCountBuffer"]) >>
  ELSE << FillBufferCmd(handles["_drawCountBuffer"], drawCount),
          PipelineBarrier("TransferDestToIndirectArguments", handles["_drawCountBuffer"]) >>

\* the draw reading the unculled arguments whether or not culling is enabled
DrawCommandsUnculled(drawCount, cullingEnabled, frameIndex) ==
  << BindDescriptorSet(_passDescriptorSet, frameIndex),
     SetIndexBuffer(handles["_indexBuffer"]),
     DrawIndexedIndirectCount(handles["_argumentBuffer"], handles["_drawCountBuffer"],
                              drawCount) >>

DrawCommands(drawCount, cullingEnabled, frameIndex) ==
  LET argumentBuffer == IF cullingEnabled THEN handles["_culledArgumentBuffer"]
                        ELSE handles["_argumentBuffer"]
  IN << BindDescriptorSet(_passDescriptorSet, frameIndex),
        SetIndexBuffer(handles["_indexBuffer"]),
        DrawIndexedIndirectCount(argumentBuffer, handles["_drawCountBuffer"], drawCount) >>

ReadbackCommands ==
  << PipelineBarrier("TransferDestToTransferSrc", handles["_drawCountBuffer"]),
     CopyBufferCmd(handles["_drawCountReadBackBuffer"], handles["_drawCountBuffer"]),
     PipelineBarrier("TransferDestToTransferSrc", handles["_drawCountReadBackBuffer"]),
     PipelineBarrier("TransferDestToTransferSrc", handles["_triangleCountBuffer"]),
     CopyBufferCmd(handles["_triangleCountReadBackBuffer"], handles["_triangleCountBuffer"]),
     PipelineBarrier("TransferDestToTransferSrc", handles["_triangleCountReadBackBuffer"]) >>

\* the pass without the early return on an empty draw-parameter array
AddMapObjectPassAlways(cullingEnabled, lockFrustum, frameIndex) ==
  LET drawCount == Len(_drawParameters) IN
  [ commands |-> CullCommands(drawCount, cullingEnabled, frameIndex)
                   \o DrawCommands(drawCount, cullingEnabled, frameIndex)
                   \o ReadbackCommands,
    cull |-> IF cullingEnabled THEN BindCulling(_cullingDescriptorSet)
             ELSE _cullingDescriptorSet,
    constants |-> IF cullingEnabled
                  THEN CullingConstants(_cullingConstantBuffer, drawCount,
                                        lockFrustum, frameIndex)
                  ELSE _cullingConstantBuffer ]

\* result: the recorded commands, the culling descriptor set, the constants
AddMapObjectPass(cullingEnabled, lockFrustum, frameIndex) ==
  LET drawCount == Len(_drawParameters) IN
  IF drawCount = 0
  THEN [ commands |-> <<>>, cull |-> _cullingDescriptorSet,
         constants |-> _cullingConstantBuffer ]
  ELSE [ commands |-> CullCommands(drawCount, cullingEnabled, frameIndex)
                        \o DrawCommands(drawCount, cullingEnabled, frameIndex)
                        \o ReadbackCommands,
         cull |-> IF cullingEnabled THEN BindCulling(_cullingDescriptorSet)
                  ELSE _cullingDescriptorSet,
         constants |-> IF cullingEnabled
                       THEN CullingConstants(_cullingConstantBuffer, drawCount,
                                             lockFrustum, frameIndex)
                       ELSE _cullingConstantBuffer ]

(***************************************************************************)
(* ClientRenderer::Render                                                  *)
(***************************************************************************)
\* the frame-sync semaphore a frame waits on: none for the first frame
\* the passes of the render graph of a frame, in the order they are added;
\* the map-object pass is added within the terrain pass
RenderGraphPasses ==
  << "DebugUploadPass", "ClearPass", "TerrainPass", "ComplexModelPass", "PostProcessPass",
     "VisualizerPass", "PyramidPass", "PixelQueryPass", "DrawArgumentPass", "Debug3DPass",
     "UIPass", "Debug2DPass", "ImguiPass" >>

WaitSemaphoresNone(frameIndex, first) == {}
WaitSemaphores(frameIndex, first) == IF first THEN {} ELSE {1 - frameIndex}

RenderFrame(cullingEnabled, lockFrustum) ==
  LET pass == AddMapObjectPass(cullingEnabled, lockFrustum, _frameIndex)
      frame == [ frameIndex |-> _frameIndex,
                 commands |-> pass.commands,
                 constants |-> pass.constants.applied[_frameIndex + 1],
                 number |-> frames + 1,
                 passes |-> RenderGraphPasses,
                 signals |-> {_frameIndex},
                 waits |-> WaitSemaphores(_frameIndex, firstFrame) ]
  IN \* Renderer::FlipFrame
     /\ buffers' = Restrict(buffers, DOMAIN buffers \ Destroyed(destroyQueue))
     /\ destroyQueue' = FlipDestroyQueue(destroyQueue)
     /\ _cullingDescriptorSet' = pass.cull
     /\ _cullingConstantBuffer' = pass.constants
     /\ inFlight' = Append(inFlight, frame)
     /\ firstFrame' = FALSE
     /\ _frameIndex' = 1 - _frameIndex
     /\ UNCHANGED << handles, _passDescriptorSet, nextBufferID >>

\* minimized: Window::IsMinimized; cullingEnabled, lockFrustum: the
\* configuration variables as read when the pass is added
Render(minimized, cullingEnabled, lockFrustum) ==
  /\ framePhase = "render"
  /\ framePhase' = "update"
  /\ lastOp' = [NoOp EXCEPT !.op = "Render",
                            !.cvars = [ cullingEnabled |-> cullingEnabled,
                                        lockFrustum |-> lockFrustum,
                                        minimized |-> minimized ]]
  /\ IF minimized
     THEN /\ ~cullingEnabled /\ ~lockFrustum     \* not read
          /\ UNCHANGED << gpuVars, _cullingConstantBuffer, frameVars, rendererVars,
                          inFlight, frames >>
     ELSE \* the CPU does not run further ahead of the GPU than the frames in flight
          /\ Len(inFlight) < FramesInFlight
          /\ frames < MaxFrames
          /\ frames' = frames + 1
          /\ RenderFrame(cullingEnabled, lockFrustum)
  /\ UNCHANGED << cpuVars, statVars, lastReadBack, animVars, scriptVars, syncVars, firstQueued, fileLoads, rebuilds, registerCalls, clears >>

(***************************************************************************)
(* The GPU: the oldest submitted frame is executed.                        *)
(***************************************************************************)
\* how many of the n draws tested by the cull shader survive
CullChoices == {"one", "all"}
Survivors(choice, n) ==
  CASE choice = "none" -> 0
    [] choice = "one" -> Min2(1, n)
    [] OTHER -> n

DataOf(bufs, id) == IF id \in DOMAIN bufs THEN bufs[id].data ELSE <<>>

WriteCell(bufs, id, v) ==
  IF id \in DOMAIN bufs THEN [bufs EXCEPT ![id].data = <<v>>] ELSE bufs

\* mem: [bufs, set (the descriptor set bound last)]
ExecCommand(c, mem, constants, choice) ==
  CASE c.cmd = "FillBuffer" -> [mem EXCEPT !.bufs = WriteCell(@, c.buf, c.val)]
    [] c.cmd = "CopyBuffer" ->
         [mem EXCEPT !.bufs = IF DataOf(@, c.src) = <<>> THEN @
                              ELSE WriteCell(@, c.buf, DataOf(@, c.src)[1])]
    [] c.cmd = "BindDescriptorSet" -> [mem EXCEPT !.set = c.set]
    [] c.cmd = "Dispatch" ->
         LET args == DataOf(mem.bufs, mem.set["_drawCommands"])
             n == Min2(constants.maxDrawCount, Len(args))
             k == Survivors(choice, n)
             drawCount == mem.set["_drawCount"]
             triangleCount == mem.set["_triangleCount"]
             b1 == IF DataOf(mem.bufs, drawCount) = <<>> THEN mem.bufs
                   ELSE WriteCell(mem.bufs, drawCount, DataOf(mem.bufs, drawCount)[1] + k)
             b2 == IF DataOf(b1, triangleCount) = <<>> THEN b1
                   ELSE WriteCell(b1, triangleCount,
                                  DataOf(b1, triangleCount)[1] + CountTriangles(SubSeq(args, 1, k)))
         IN [mem EXCEPT !.bufs = b2]
    [] OTHER -> mem

RECURSIVE ExecCommands(_, _, _, _)
ExecCommands(cmds, mem, constants, choice) ==
  IF cmds = <<>> THEN mem
  ELSE ExecCommands(Tail(cmds), ExecCommand(cmds[1], mem, constants, choice), constants, choice)

HasDispatch(cmds) == \E i \in 1..Len(cmds) : cmds[i].cmd = "Dispatch"
HasReadback(cmds) == \E i \in 1..Len(cmds) : cmds[i].cmd = "CopyBuffer"

\* The passes of a frame on the GPU.  st: [pyramid (the frame that built the
\* depth pyramid), sampled (the pyramid the culling passes sampled)]
CullPasses == {"TerrainPass", "ComplexModelPass"}
ExecPass(pass, number, st) ==
  CASE pass = "PyramidPass" -> [st EXCEPT !.pyramid = number]
    [] pass \in CullPasses -> [st EXCEPT !.sampled = st.pyramid]
    [] OTHER -> st

RECURSIVE ExecPasses(_, _, _)
ExecPasses(passes, number, st) ==
  IF passes = <<>> THEN st
  ELSE ExecPasses(Tail(passes), number, ExecPass(passes[1], number, st))

ExecFrame(frame, pyramid) ==
  ExecPasses(frame.passes, frame.number, [pyramid |-> pyramid, sampled |-> pyramid])

GPUComplete ==
  /\ inFlight # <<>>
  /\ LET frame == inFlight[1] IN
     \E choice \in (IF HasDispatch(frame.commands) THEN CullChoices ELSE {"none"}) :
       buffers' = ExecCommands(frame.commands, [bufs |-> buffers, set |-> EmptyMap],
                               frame.constants, choice).bufs
  /\ inFlight' = Tail(inFlight)
  /\ lastReadBack' =
       IF HasReadback(inFlight[1].commands)
       THEN [ frame |-> inFlight[1].number,
              drawCount |-> buffers'[handles["_drawCountReadBackBuffer"]].data[1],
              triangleCount |-> buffers'[handles["_triangleCountReadBackBuffer"]].data[1] ]
       ELSE lastReadBack
  /\ depthPyramid' = ExecFrame(inFlight[1], depthPyramid).pyramid
  /\ lastOp' = [NoOp EXCEPT !.op = "GPUComplete"]
  /\ UNCHANGED << cpuVars, statVars, gpuVars, _cullingConstantBuffer, frameVars,
                  framePhase, nextBufferID, destroyQueue, fileLoads, rebuilds, registerCalls,
                  clears, frames, animVars, scriptVars, semaphores, gpuRunning, firstQueued >>

(***************************************************************************)
(* The GPU, frame by frame: a submitted frame begins once every semaphore  *)
(* it waits on is signalled (the wait takes the signal), and signals its   *)
(* own semaphores when its commands are done.  Submissions that wait on    *)
(* nothing may run side by side.                                           *)
(***************************************************************************)
RemoveAt(seq, i) == SubSeq(seq, 1, i - 1) \o SubSeq(seq, i + 1, Len(seq))

GPUBegin ==
  /\ \E i \in 1..Len(inFlight) :
       /\ inFlight[i].number \notin gpuRunning
       /\ inFlight[i].waits \subseteq semaphores
       /\ semaphores' = semaphores \ inFlight[i].waits
       /\ gpuRunning' = gpuRunning \cup {inFlight[i].number}
  /\ lastOp' = [NoOp EXCEPT !.op = "GPUBegin"]
  /\ UNCHANGED << cpuVars, statVars, gpuVars, _cullingConstantBuffer, frameVars,
                  framePhase, rendererVars, inFlight, lastReadBack, fileLoads, rebuilds,
                  registerCalls, clears, frames, animVars, scriptVars, depthPyramid, firstQueued >>

GPUFinish ==
  /\ \E i \in 1..Len(inFlight) :
       LET frame == inFlight[i] IN
       /\ frame.number \in gpuRunning
       /\ \E choice \in (IF HasDispatch(frame.commands) THEN CullChoices ELSE {"none"}) :
            buffers' = ExecCommands(frame.commands, [bufs |-> buffers, set |-> EmptyMap],
                                    frame.constants, choice).bufs
       /\ inFlight' = RemoveAt(inFlight, i)
       /\ gpuRunning' = gpuRunning \ {frame.number}
       /\ semaphores' = semaphores \cup frame.signals
       /\ depthPyramid' = ExecFrame(frame, depthPyramid).pyramid
       /\ lastReadBack' =
            IF HasReadback(frame.commands)
            THEN [ frame |-> frame.number,
                   drawCount |-> buffers'[handles["_drawCountReadBackBuffer"]].data[1],
                   triangleCount |-> buffers'[handles["_triangleCountReadBackBuffer"]].data[1] ]
            ELSE lastReadBack
  /\ lastOp' = [NoOp EXCEPT !.op = "GPUFinish"]
  /\ UNCHANGED << cpuVars, statVars, gpuVars, _cullingConstantBuffer, frameVars,
                  framePhase, nextBufferID, destroyQueue, fileLoads, rebuilds, registerCalls,
                  clears, frames, animVars, scriptVars, firstQueued >>

(***************************************************************************)
(* CModelRenderer: animated instances.  Of this part src/ holds the        *)
(* declarations (CModelRenderer.h); the operations below follow the        *)
(* description of the animation instance allocator.                        *)
(***************************************************************************)
MaxAnimInstances == 2
MaxRequests == 2
MaxAnimFrames == 2

\* _animationModelInfo: per model the number of sequences and bones and the
\* offset of its sequences in _animationSequence
AnimationModelInfoTable ==
  << [numSequences |-> 2, numBones |-> 2, sequenceOffset |-> 0],
     [numSequences |-> 1, numBones |-> 1, sequenceOffset |-> 2] >>
ModelIds == 0..(Len(AnimationModelInfoTable) - 1)
\* _animationSequence: the duration of each sequence, in updates
AnimationSequenceTable == <<2, 1, 2>>

GetNumSequencesForModelId(modelId) == AnimationModelInfoTable[modelId + 1].numSequences

\* AnimationBoneInstance::AnimateState
STOPPED == 0
PLAY_ONCE == 1
PLAY_LOOP == 2
DefaultBoneInstance ==
  [animationProgress |-> 0, sequenceIndex |-> 0, animateState |-> STOPPED]

\* BufferRangeAllocator: size is the size of the backing buffer, free the
\* released ranges
RangeFrame(offset, size) == [offset |-> offset, size |-> size]
FittingFrames(allocator, size) == { f \in allocator.free : f.size >= size }
\* the smallest free range that fits, the lowest of them
BestFit(allocator, size) ==
  CHOOSE f \in FittingFrames(allocator, size) :
    \A g \in FittingFrames(allocator, size) :
      \/ f.size < g.size
      \/ (f.size = g.size /\ f.offset <= g.offset)

\* the allocator that always grows the buffer
AllocateAtEnd(allocator, size) ==
  [ allocator |-> [allocator EXCEPT !.size = @ + size],
    frame |-> RangeFrame(allocator.size, size) ]

\* result: the allocator and the range handed out
Allocate(allocator, size) ==
  IF FittingFrames(allocator, size) = {}
  THEN [ allocator |-> [allocator EXCEPT !.size = @ + size],
         frame |-> RangeFrame(allocator.size, size) ]
  ELSE LET f == BestFit(allocator, size)
           rest == IF f.size > size
                   THEN {RangeFrame(f.offset + size, f.size - size)} ELSE {}
       IN [ allocator |-> [allocator EXCEPT !.free = (@ \ {f}) \cup rest],
            frame |-> RangeFrame(f.offset, size) ]

Free(allocator, frame) == [allocator EXCEPT !.free = @ \cup {frame}]

\* the cells of a range, as indices of the mirrored array
RangeCells(frame) == (frame.offset + 1)..(frame.offset + frame.size)

LiveInstanceIds ==
  { i \in 0..(Len(_cmodelInstances) - 1) : _cmodelInstances[i + 1].live }

\* CModelRenderer::AddInstance of an animated model: its bone ranges
AllocateBoneRanges(modelId) ==
  /\ animPhase = "idle"
  /\ Len(_cmodelInstances) < MaxAnimInstances
  /\ LET numBones == AnimationModelInfoTable[modelId + 1].numBones
         deform == Allocate(_animationBoneDeformRangeAllocator, numBones)
         state == Allocate(_animationBoneInstancesRangeAllocator, numBones)
         grown == _animationBoneInstances
                    \o [i \in 1..(state.allocator.size - Len(_animationBoneInstances))
                          |-> DefaultBoneInstance]
     IN /\ _animationBoneDeformRangeAllocator' = deform.allocator
        /\ _animationBoneInstancesRangeAllocator' = state.allocator
        /\ _instanceBoneDeformRangeFrames' = Append(_instanceBoneDeformRangeFrames, deform.frame)
        /\ _instanceBoneInstanceRangeFrames' =
             Append(_instanceBoneInstanceRangeFrames, state.frame)
        /\ _cmodelInstances' =
             Append(_cmodelInstances,
                    [ modelId |-> modelId, live |-> TRUE,
                      boneDeformOffset |-> deform.frame.offset,
                      boneInstanceDataOffset |-> state.frame.offset ])
        /\ _animationBoneInstances' =
             [i \in 1..Len(grown) |->
                IF i \in RangeCells(state.frame) THEN DefaultBoneInstance ELSE grown[i]]
        /\ lastAnim' = [NoAnim EXCEPT !.op = "Allocate", !.writes = RangeCells(state.frame)]
  /\ UNCHANGED << _animationRequests, animPhase, animCursor, requestCount, taken,
                  drainSnapshot, animFrames, loaderVars, scriptVars, syncVars, firstQueued >>

\* Release(instance): its ranges go back to the two allocators
Release(instanceId) ==
  /\ animPhase = "idle"
  /\ instanceId \in LiveInstanceIds
  /\ _cmodelInstances' = [_cmodelInstances EXCEPT ![instanceId + 1].live = FALSE]
  /\ _animationBoneDeformRangeAllocator' =
       Free(_animationBoneDeformRangeAllocator, _instanceBoneDeformRangeFrames[instanceId + 1])
  /\ _animationBoneInstancesRangeAllocator' =
       Free(_animationBoneInstancesRangeAllocator,
            _instanceBoneInstanceRangeFrames[instanceId + 1])
  /\ lastAnim' = [NoAnim EXCEPT !.op = "Release"]
  /\ UNCHANGED << _instanceBoneDeformRangeFrames, _instanceBoneInstanceRangeFrames,
                  _animationBoneInstances, _animationRequests, animPhase, animCursor,
                  requestCount, taken, drainSnapshot, animFrames, loaderVars, scriptVars, syncVars, firstQueued >>

\* CModelRenderer::AddAnimationRequest, from any thread at any time
FlagChoices ==
  { [isPlaying |-> TRUE, isLooping |-> FALSE],
    [isPlaying |-> TRUE, isLooping |-> TRUE],
    [isPlaying |-> FALSE, isLooping |-> FALSE] }
SequenceIds == 0..2

AddAnimationRequest(instanceId, sequenceId, flags) ==
  /\ requestCount < MaxRequests
  /\ requestCount' = requestCount + 1
  /\ taken' = Append(taken, 0)
  /\ _animationRequests' =
       Append(_animationRequests,
              [ id |-> requestCount + 1, instanceId |-> instanceId,
                sequenceId |-> sequenceId,
                isPlaying |-> flags.isPlaying, isLooping |-> flags.isLooping ])
  /\ lastAnim' = [NoAnim EXCEPT !.op = "AddAnimationRequest"]
  /\ UNCHANGED << _cmodelInstances, _instanceBoneDeformRangeFrames,
                  _instanceBoneInstanceRangeFrames, _animationBoneDeformRangeAllocator,
                  _animationBoneInstancesRangeAllocator, _animationBoneInstances,
                  animPhase, animCursor, drainSnapshot, animFrames, loaderVars, scriptVars, syncVars, firstQueued >>

\* the update of a frame starts with the drain of the requests
BeginUpdate ==
  /\ animPhase = "idle"
  /\ animFrames < MaxAnimFrames
  /\ animFrames' = animFrames + 1
  /\ animPhase' = "drain"
  /\ drainSnapshot' = { _animationRequests[i].id : i \in 1..Len(_animationRequests) }
  /\ lastAnim' = [NoAnim EXCEPT !.op = "BeginUpdate"]
  /\ UNCHANGED << _cmodelInstances, _instanceBoneDeformRangeFrames,
                  _instanceBoneInstanceRangeFrames, _animationBoneDeformRangeAllocator,
                  _animationBoneInstancesRangeAllocator, _animationBoneInstances,
                  _animationRequests, animCursor, requestCount, taken, loaderVars, scriptVars, syncVars, firstQueued >>

\* the request applied whatever its sequence
ApplyRequestUnchecked(request, boneInstances) ==
  IF request.instanceId \notin LiveInstanceIds
  THEN [boneInstances |-> boneInstances, writes |-> {}, sequenceReads |-> {}]
  ELSE
  LET modelInfo == AnimationModelInfoTable[_cmodelInstances[request.instanceId + 1].modelId + 1]
      cells == RangeCells(_instanceBoneInstanceRangeFrames[request.instanceId + 1])
      state == IF ~request.isPlaying THEN STOPPED
               ELSE IF request.isLooping THEN PLAY_LOOP ELSE PLAY_ONCE
  IN [ boneInstances |->
         [i \in 1..Len(boneInstances) |->
            IF i \in cells
            THEN [ animationProgress |-> 0,
                   sequenceIndex |-> modelInfo.sequenceOffset + request.sequenceId,
                   animateState |-> state ]
            ELSE boneInstances[i]],
       writes |-> cells,
       sequenceReads |-> {modelInfo.sequenceOffset + request.sequenceId} ]

\* a request for a sequence the model of the instance does not have, or for
\* an instance that is not there, is ignored; another one sets the sequence
\* and the play mode of every bone instance of the instance
ApplyRequest(request, boneInstances) ==
  IF request.instanceId \notin LiveInstanceIds
  THEN [boneInstances |-> boneInstances, writes |-> {}, sequenceReads |-> {}]
  ELSE
  LET modelId == _cmodelInstances[request.instanceId + 1].modelId
      modelInfo == AnimationModelInfoTable[modelId + 1]
      cells == RangeCells(_instanceBoneInstanceRangeFrames[request.instanceId + 1])
      state == IF ~request.isPlaying THEN STOPPED
               ELSE IF request.isLooping THEN PLAY_LOOP ELSE PLAY_ONCE
  IN IF request.sequenceId >= GetNumSequencesForModelId(modelId)
     THEN [boneInstances |-> boneInstances, writes |-> {}, sequenceReads |-> {}]
     ELSE [ boneInstances |->
              [i \in 1..Len(boneInstances) |->
                 IF i \in cells
                 THEN [ animationProgress |-> 0,
                        sequenceIndex |-> modelInfo.sequenceOffset + request.sequenceId,
                        animateState |-> state ]
                 ELSE boneInstances[i]],
            writes |-> cells,
            sequenceReads |-> {modelInfo.sequenceOffset + request.sequenceId} ]

\* one turn of the drain loop: a request is taken from the queue and applied
DrainRequest ==
  /\ animPhase = "drain"
  /\ _animationRequests # <<>>
  /\ LET request == Head(_animationRequests)
         applied == ApplyRequest(request, _animationBoneInstances)
     IN /\ _animationRequests' = Tail(_animationRequests)
        /\ taken' = [taken EXCEPT ![request.id] = @ + 1]
        /\ _animationBoneInstances' = applied.boneInstances
        /\ lastAnim' = [ op |-> "DrainRequest", request |-> request,
                         writes |-> applied.writes,
                         sequenceReads |-> applied.sequenceReads ]
  /\ UNCHANGED << _cmodelInstances, _instanceBoneDeformRangeFrames,
                  _instanceBoneInstanceRangeFrames, _animationBoneDeformRangeAllocator,
                  _animationBoneInstancesRangeAllocator, animPhase, animCursor,
                  requestCount, drainSnapshot, animFrames, loaderVars, scriptVars, syncVars, firstQueued >>

\* the drain left before the queue is found empty
EndDrainEarly ==
  /\ animPhase = "drain"
  /\ animPhase' = "animate"
  /\ animCursor' = 0
  /\ lastAnim' = [NoAnim EXCEPT !.op = "EndDrain"]
  /\ UNCHANGED << _cmodelInstances, _instanceBoneDeformRangeFrames,
                  _instanceBoneInstanceRangeFrames, _animationBoneDeformRangeAllocator,
                  _animationBoneInstancesRangeAllocator, _animationBoneInstances,
                  _animationRequests, requestCount, taken, drainSnapshot, animFrames,
                  loaderVars, scriptVars, syncVars, firstQueued >>

\* the drain loop ends when the queue is found empty
EndDrain ==
  /\ animPhase = "drain"
  /\ _animationRequests = <<>>
  /\ animPhase' = "animate"
  /\ animCursor' = 0
  /\ lastAnim' = [NoAnim EXCEPT !.op = "EndDrain"]
  /\ UNCHANGED << _cmodelInstances, _instanceBoneDeformRangeFrames,
                  _instanceBoneInstanceRangeFrames, _animationBoneDeformRangeAllocator,
                  _animationBoneInstancesRangeAllocator, _animationBoneInstances,
                  _animationRequests, requestCount, taken, drainSnapshot, animFrames,
                  loaderVars, scriptVars, syncVars, firstQueued >>

\* a bone instance advanced by one update: it wraps at the duration of its
\* sequence when looping and stops there when played once
Advance(boneInstance) ==
  LET duration == AnimationSequenceTable[boneInstance.sequenceIndex + 1]
      progress == boneInstance.animationProgress + 1
  IN IF boneInstance.animateState = STOPPED THEN boneInstance
     ELSE IF progress < duration THEN [boneInstance EXCEPT !.animationProgress = progress]
     ELSE IF boneInstance.animateState = PLAY_LOOP
          THEN [boneInstance EXCEPT !.animationProgress = 0]
          ELSE [boneInstance EXCEPT !.animationProgress = duration,
                                    !.animateState = STOPPED]

\* the animation update of the frame, one instance at a time
AnimateInstance ==
  /\ animPhase = "animate"
  /\ animCursor < Len(_cmodelInstances)
  /\ animCursor' = animCursor + 1
  /\ LET cells == IF _cmodelInstances[animCursor + 1].live
                  THEN RangeCells(_instanceBoneInstanceRangeFrames[animCursor + 1])
                  ELSE {}
     IN /\ _animationBoneInstances' =
             [i \in 1..Len(_animationBoneInstances) |->
                IF i \in cells THEN Advance(_animationBoneInstances[i])
                ELSE _animationBoneInstances[i]]
        /\ lastAnim' = [NoAnim EXCEPT !.op = "AnimateInstance", !.writes = cells]
  /\ UNCHANGED << _cmodelInstances, _instanceBoneDeformRangeFrames,
                  _instanceBoneInstanceRangeFrames, _animationBoneDeformRangeAllocator,
                  _animationBoneInstancesRangeAllocator, _animationRequests, animPhase,
                  requestCount, taken, drainSnapshot, animFrames, loaderVars, scriptVars, syncVars, firstQueued >>

EndUpdate ==
  /\ animPhase = "animate"
  /\ animCursor = Len(_cmodelInstances)
  /\ animPhase' = "idle"
  /\ lastAnim' = [NoAnim EXCEPT !.op = "EndUpdate"]
  /\ UNCHANGED << _cmodelInstances, _instanceBoneDeformRangeFrames,
                  _instanceBoneInstanceRangeFrames, _animationBoneDeformRangeAllocator,
                  _animationBoneInstancesRangeAllocator, _animationBoneInstances,
                  _animationRequests, animCursor, requestCount, taken, drainSnapshot,
                  animFrames, loaderVars, scriptVars, syncVars, firstQueued >>

(***************************************************************************)
(* ScriptHandler: LoadScript and LoadScriptDirectory.  An entry of the     *)
(* script folder is given by what each call made for it returns.           *)
(***************************************************************************)
MaxScripts == 2

ExecutionResults ==
  { "asEXECUTION_FINISHED", "asEXECUTION_SUSPENDED", "asEXECUTION_ABORTED",
    "asEXECUTION_EXCEPTION", "asEXECUTION_ERROR" }

\* a script that builds, has a main and runs to the end
GoodScript ==
  [ isDirectory |-> FALSE, startNewModule |-> 0, addSectionFromFile |-> 1,
    buildModule |-> 0, hasMain |-> TRUE, execute |-> "asEXECUTION_FINISHED" ]

DirectoryEntries ==
  { [GoodScript EXCEPT !.isDirectory = TRUE],
    [GoodScript EXCEPT !.startNewModule = -1],
    [GoodScript EXCEPT !.addSectionFromFile = -1],
    [GoodScript EXCEPT !.addSectionFromFile = 0],
    [GoodScript EXCEPT !.buildModule = -1],
    [GoodScript EXCEPT !.hasMain = FALSE] }
  \cup { [GoodScript EXCEPT !.execute = r] : r \in ExecutionResults }

LoadScript(script) ==
  IF script.startNewModule < 0 THEN FALSE
  ELSE IF script.addSectionFromFile < 0 THEN FALSE
  ELSE IF script.buildModule < 0 THEN FALSE
  ELSE IF ~script.hasMain THEN FALSE
  ELSE IF script.execute # "asEXECUTION_FINISHED"
          /\ script.execute = "asEXECUTION_EXCEPTION" THEN FALSE
  ELSE TRUE

\* st: [results, count]
RECURSIVE LoadScripts(_, _)
LoadScripts(entries, st) ==
  IF entries = <<>> THEN st
  ELSE IF entries[1].isDirectory THEN LoadScripts(Tail(entries), st)
  ELSE LET loaded == LoadScript(entries[1]) IN
       LoadScripts(Tail(entries),
                   [ results |-> Append(st.results, loaded),
                     count |-> IF loaded THEN st.count + 1 ELSE st.count ])

Directories == UNION { [1..n -> DirectoryEntries] : n \in 0..MaxScripts }

LoadScriptDirectory(entries) ==
  /\ \E st \in {LoadScripts(entries, [results |-> <<>>, count |-> 0])} :
       /\ scriptResults' = st.results
       /\ scriptCount' = st.count
  /\ scriptFiles' = SelectSeq(entries, LAMBDA e : ~e.isDirectory)
  /\ UNCHANGED << loaderVars, animVars, syncVars, firstQueued >>

(***************************************************************************)
(* The specifications.                                                     *)
(***************************************************************************)
\* The loader alone, over every registration and every state of the files.
NextLoad ==
  \/ \E p \in PlacementIDs : RegisterMapObjectToBeLoaded(p)
  \/ \E c \in ChunkIDs : RegisterMapObjectsToBeLoaded(c)
  \/ ExecuteLoad(Variants)
  \/ Clear
SpecLoad == Init /\ [][NextLoad]_vars

\* The frame loop around the loader: one placement of each asset, files
\* that are there or not, the window shown and the frustum free.
FramePlacementIDs == {1, 3}
FrameVariants == {"ok", "missing"}
Next ==
  \/ \E p \in FramePlacementIDs : RegisterMapObjectToBeLoaded(p)
  \/ ExecuteLoad(FrameVariants)
  \/ Clear
  \/ \E cullingEnabled \in BOOLEAN : Update(cullingEnabled)
  \/ \E cullingEnabled \in BOOLEAN : Render(FALSE, cullingEnabled, FALSE)
  \/ GPUComplete
Spec == Init /\ [][Next]_vars

\* The frame loop with culling enabled and the culling frustum locked or
\* free in each frame, over files that are there.
NextLock ==
  \/ \E p \in FramePlacementIDs : RegisterMapObjectToBeLoaded(p)
  \/ ExecuteLoad({"ok"})
  \/ Update(TRUE)
  \/ \E lockFrustum \in BOOLEAN : Render(FALSE, TRUE, lockFrustum)
  \/ GPUComplete
SpecLock == Init /\ [][NextLock]_vars

\* The frame loop with the window shown or minimized in each frame, and the
\* GPU beginning and finishing the submitted frames as the frame-sync
\* semaphores let it.
NextSync ==
  \/ \E p \in FramePlacementIDs : RegisterMapObjectToBeLoaded(p)
  \/ ExecuteLoad({"ok"})
  \/ \E cullingEnabled \in BOOLEAN : Update(cullingEnabled)
  \/ \E minimized, cullingEnabled \in BOOLEAN : Render(minimized, cullingEnabled, FALSE)
  \/ GPUBegin
  \/ GPUFinish
SpecSync == Init /\ [][NextSync]_vars

\* The script folder loaded, and loaded again, with whatever it holds.
NextScript == \E entries \in Directories : LoadScriptDirectory(entries)
SpecScript == Init /\ [][NextScript]_vars

\* One placement registered over and over, as by chunks that keep sharing
\* it, with loads of files that are there in between.
NextRepeat ==
  \/ RegisterRepeatedly(1)
  \/ ExecuteLoad({"ok"})
SpecRepeat == Init /\ [][NextRepeat]_vars

\* The animated instances: allocations and releases between the frames, the
\* update of the render thread, and requests enqueued at any point of it.
AnimInstanceIds == 0..(MaxAnimInstances - 1)
NextAnim ==
  \/ \E modelId \in ModelIds : AllocateBoneRanges(modelId)
  \/ \E instanceId \in AnimInstanceIds : Release(instanceId)
  \/ \E instanceId \in AnimInstanceIds, sequenceId \in SequenceIds, flags \in FlagChoices :
       AddAnimationRequest(instanceId, sequenceId, flags)
  \/ BeginUpdate
  \/ DrainRequest
  \/ EndDrain
  \/ AnimateInstance
  \/ EndUpdate
SpecAnim == Init /\ [][NextAnim]_vars

(***************************************************************************)
(* Properties.                                                             *)
(***************************************************************************)
\* the placement an instance was made from: its transform tells
PlacementOfInstance(k) ==
  CHOOSE p \in PlacementIDs :
    _instances[k].instanceMatrix = InstanceMatrix(PlacementTable[p])
NameOfInstance(k) == PlacementTable[PlacementOfInstance(k)].nameID
InstanceIDs == 1..Len(_instances)

\* C1: with no Clear in between, the loaded-model list holds exactly one
\* entry per distinct successfully loaded name hash, each file is loaded only
\* once, and the placements that reference the same asset are instances that
\* carry the same loaded-model index.
C1_OneModelPerAsset ==
  /\ Len(fileLoads) = Cardinality(Range(fileLoads))
  /\ Len(_loadedMapObjects) = Cardinality(Range(fileLoads))
  /\ DOMAIN _nameHashToIndexMap = Range(fileLoads)
  /\ \A h \in DOMAIN _nameHashToIndexMap :
       /\ _nameHashToIndexMap[h] < Len(_loadedMapObjects)
       /\ \A g \in DOMAIN _nameHashToIndexMap :
            _nameHashToIndexMap[g] = _nameHashToIndexMap[h] => g = h
  /\ Len(_mapObjectPlacementDetails) = Len(_instances)
  /\ \A k \in InstanceIDs :
       _mapObjectPlacementDetails[k].loadedIndex
         = _nameHashToIndexMap[NameHash(NameOfInstance(k))]

\* two placements of the same asset with different unique IDs are loaded
C1_Witness ==
  /\ Len(_instances) = 2
  /\ PlacementTable[PlacementOfInstance(1)].uniqueID
       # PlacementTable[PlacementOfInstance(2)].uniqueID
  /\ NameOfInstance(1) = NameOfInstance(2)
  /\ Len(_loadedMapObjects) = 1
  /\ Len(fileLoads) = 1
  /\ _mapObjectPlacementDetails[1].loadedIndex = _mapObjectPlacementDetails[2].loadedIndex

\* the step is an ExecuteLoad that had pending placements
IsLoadStep == lastOp'.op = "ExecuteLoad" /\ _mapObjectsToBeLoaded # <<>>
\* every file the batch opened was there and well-formed
AllLoadable(fs) == \A n \in DOMAIN fs : fs[n] = "ok"
QueueUniqueIDs(queue) ==
  {PlacementTable[queue[i].placement].uniqueID : i \in 1..Len(queue)}
\* the render batches of the model a queue entry refers to, once loaded
RenderBatchCount(entry, loaded, nameHashToIndexMap) ==
  Len(loaded[nameHashToIndexMap[entry.nmorNameHash] + 1].renderBatches)
RECURSIVE SumRenderBatches(_, _, _)
SumRenderBatches(queue, loaded, nameHashToIndexMap) ==
  IF queue = <<>> THEN 0
  ELSE RenderBatchCount(queue[1], loaded, nameHashToIndexMap)
         + SumRenderBatches(Tail(queue), loaded, nameHashToIndexMap)

\* C2: an ExecuteLoad over N pending placements with distinct unique IDs whose
\* assets all load appends exactly N instances, and as many instance-lookup
\* entries and draw parameters as the placements' models have render batches.
C2_BatchCounts ==
  [][ ( /\ IsLoadStep
        /\ AllLoadable(lastOp'.fs)
        /\ Cardinality(QueueUniqueIDs(_mapObjectsToBeLoaded)) = Len(_mapObjectsToBeLoaded) )
      => /\ Len(_instances') = Len(_instances) + Len(_mapObjectsToBeLoaded)
         /\ Len(_instanceLookupData')
              = Len(_instanceLookupData)
                  + SumRenderBatches(_mapObjectsToBeLoaded, _loadedMapObjects',
                                     _nameHashToIndexMap')
         /\ Len(_drawParameters') - Len(_drawParameters)
              = Len(_instanceLookupData') - Len(_instanceLookupData) ]_vars

\* one batch has just loaded a placement of each asset: three render batches
\* in two meshes, and two render batches in one mesh
C2_Witness ==
  /\ lastOp.op = "ExecuteLoad"
  /\ DOMAIN lastOp.fs = NameIDs
  /\ AllLoadable(lastOp.fs)
  /\ rebuilds = 1
  /\ Len(_instances) = 2
  /\ {Len(_loadedMapObjects[i].renderBatches) : i \in 1..Len(_loadedMapObjects)} = {2, 3}
  /\ Len(_instanceLookupData) = 5
  /\ Len(_drawParameters) = 5

\* the loaded model of the asset an instance's placement names
ModelOfInstance(k) == _loadedMapObjects[_nameHashToIndexMap[NameHash(NameOfInstance(k))] + 1]
LookupEntriesOf(instanceID) ==
  {j \in 1..Len(_instanceLookupData) : _instanceLookupData[j].instanceID = instanceID}

\* C3: in every reachable state, for every instance the number of
\* instance-lookup entries that carry its instanceID equals the number of
\* render batches of the model it was created from.
C3_LookupEntriesPerInstance ==
  \A k \in InstanceIDs :
    Cardinality(LookupEntriesOf(k - 1)) = Len(ModelOfInstance(k).renderBatches)

\* a model of two meshes and three render batches, its second instance added
\* by a later ExecuteLoad than the one that loaded the model
C3_Witness ==
  /\ rebuilds = 2
  /\ Len(fileLoads) = 1
  /\ Len(_instances) = 2
  /\ NameOfInstance(1) = NameOfInstance(2)
  /\ Len(ModelOfInstance(2).renderBatches) = 3
  /\ Len(ModelOfInstance(2).renderBatchOffsets) = 3
  /\ ModelOfInstance(2).renderBatchOffsets[1].baseIndexOffset
       # ModelOfInstance(2).renderBatchOffsets[2].baseIndexOffset
  /\ Cardinality(LookupEntriesOf(1)) = 3

\* C4: in every reachable state, every instance-lookup entry refers to an
\* instance, a culling-data entry and a loaded model that exist.
C4_LookupInRange ==
  \A j \in 1..Len(_instanceLookupData) :
    /\ _instanceLookupData[j].instanceID >= 0
    /\ _instanceLookupData[j].instanceID < Len(_instances)
    /\ _instanceLookupData[j].cullingDataID >= 0
    /\ _instanceLookupData[j].cullingDataID < Len(_cullingData)
    /\ _instanceLookupData[j].loadedObjectID >= 0
    /\ _instanceLookupData[j].loadedObjectID < Len(_loadedMapObjects)

\* a batch in which the first asset failed in its last mesh, after it had
\* written to the shared arrays, and the second one was loaded
C4_Witness ==
  /\ lastOp.op = "ExecuteLoad"
  /\ DOMAIN lastOp.fs = NameIDs
  /\ lastOp.fs[1] = "meshTruncated"
  /\ lastOp.fs[2] = "ok"
  /\ Len(_vertices) > 1
  /\ Len(_loadedMapObjects) = 1
  /\ Len(_instances) = 1
  /\ Len(_instanceLookupData) = 2

\* the pending placements whose asset is loaded already or is well-formed
\* on disk, in queue order, and those whose asset fails to load
Loads(entry, fs, nameHashToIndexMap) ==
  \/ entry.nmorNameHash \in DOMAIN nameHashToIndexMap
  \/ fs[entry.nmorName] = "ok"
LoadableEntries(queue, fs, nameHashToIndexMap) ==
  SelectSeq(queue, LAMBDA e : Loads(e, fs, nameHashToIndexMap))
FailingEntries(queue, fs, nameHashToIndexMap) ==
  SelectSeq(queue, LAMBDA e : ~Loads(e, fs, nameHashToIndexMap))

\* C5: ExecuteLoad skips exactly the placements whose asset fails to load:
\* nothing is created for them (no instance, placement details, lookup entry,
\* loaded model or name-hash entry), and every other pending placement of the
\* batch becomes an instance, in queue order, whatever failed before it.
C5_FailedPlacementSkipped ==
  [][ IsLoadStep =>
        LET ok == LoadableEntries(_mapObjectsToBeLoaded, lastOp'.fs, _nameHashToIndexMap)
            failed == FailingEntries(_mapObjectsToBeLoaded, lastOp'.fs, _nameHashToIndexMap)
            n == Len(_instances)
        IN /\ Len(_instances') = n + Len(ok)
           /\ Len(_mapObjectPlacementDetails') = Len(_mapObjectPlacementDetails) + Len(ok)
           /\ \A i \in 1..Len(ok) :
                /\ _instances'[n + i].instanceMatrix
                     = InstanceMatrix(PlacementTable[ok[i].placement])
                /\ _mapObjectPlacementDetails'[n + i].instanceIndex = n + i - 1
                /\ _mapObjectPlacementDetails'[n + i].loadedIndex
                     = _nameHashToIndexMap'[ok[i].nmorNameHash]
           /\ Len(_instanceLookupData')
                = Len(_instanceLookupData)
                    + SumRenderBatches(ok, _loadedMapObjects', _nameHashToIndexMap')
           /\ Len(_drawParameters') - Len(_drawParameters)
                = Len(_instanceLookupData') - Len(_instanceLookupData)
           /\ DOMAIN _nameHashToIndexMap'
                = DOMAIN _nameHashToIndexMap \cup {ok[i].nmorNameHash : i \in 1..Len(ok)}
           /\ \A i \in 1..Len(failed) :
                failed[i].nmorNameHash \notin DOMAIN _nameHashToIndexMap'
           /\ Len(_loadedMapObjects') = Cardinality(DOMAIN _nameHashToIndexMap')
           /\ \A i \in 1..Len(_loadedMapObjects') :
                /\ _loadedMapObjects'[i].objectID = i - 1
                /\ _loadedMapObjects'[i].instanceCount > 0 ]_vars

\* a batch of two placements: the first asset lacked its last mesh file, the
\* second asset was loaded and instanced
C5_Witness ==
  /\ lastOp.op = "ExecuteLoad"
  /\ DOMAIN lastOp.fs = NameIDs
  /\ lastOp.fs[1] = "meshMissing"
  /\ lastOp.fs[2] = "ok"
  /\ rebuilds = 1
  /\ Len(_instances) = 1
  /\ NameOfInstance(1) = 2
  /\ NameHash(1) \notin DOMAIN _nameHashToIndexMap
  /\ Len(_loadedMapObjects) = 1

\* the buffers a recorded command, and a submitted frame, refer to
CmdRefs(c) == ({c.buf, c.src} \cup {c.set[n] : n \in DOMAIN c.set}) \ {Invalid}
FrameRefs(frame) == UNION {CmdRefs(frame.commands[i]) : i \in 1..Len(frame.commands)}
QueuedBuffers(n) ==
  {destroyQueue[i].buffer : i \in {j \in 1..Len(destroyQueue) : destroyQueue[j].frames = n}}
CurrentBuffers == {handles[h] : h \in HandleNames}

\* C6: in no interleaving of loads, frame submissions and GPU completions
\* does a frame in flight refer to a buffer that has been freed: a buffer
\* that ExecuteLoad replaces is queued for destruction and stays allocated
\* until the frames that may refer to it have completed.
C6_NoFreedBufferInFlight ==
  /\ \A i \in 1..Len(inFlight) : FrameRefs(inFlight[i]) \subseteq DOMAIN buffers
  /\ \A i \in 1..Len(destroyQueue) : destroyQueue[i].buffer \in DOMAIN buffers
  /\ CurrentBuffers \ {Invalid} \subseteq DOMAIN buffers

\* a frame still in flight refers to a device buffer that a later ExecuteLoad
\* replaced and queued, and a further frame has been started since
C6_Witness ==
  /\ Len(inFlight) = 2
  /\ \E b \in FrameRefs(inFlight[1]) :
       /\ b \in QueuedBuffers(1)
       /\ b \notin CurrentBuffers
       /\ b \in DOMAIN buffers
       /\ buffers[b].name = "_argumentBuffer"

\* C7: an Update that reads culling as disabled, over a non-empty scene,
\* publishes the total draw-call count and the total triangle count as the
\* surviving counts, whatever the read-back buffers hold.
C7_CullingDisabledReportsTotals ==
  [][ ( /\ lastOp'.op = "Update"
        /\ ~lastOp'.cvars.cullingEnabled
        /\ Len(_drawParameters) > 0 )
      => /\ _numSurvivingDrawCalls' = Len(_drawParameters)
         /\ _numSurvivingTriangles' = _numTriangles
         /\ _numTriangles = CountTriangles(_drawParameters) ]_vars

\* culling is read as disabled while the read-back buffer holds the smaller
\* count a culled frame reported, which the previous Update had published
C7_Witness ==
  /\ lastOp.op = "Update"
  /\ ~lastOp.cvars.cullingEnabled
  /\ Len(_drawParameters) > 1
  /\ frames >= 2
  /\ buffers[handles["_drawCountReadBackBuffer"]].data = <<1>>
  /\ _numSurvivingDrawCalls = Len(_drawParameters)
  /\ _numSurvivingTriangles = _numTriangles

\* C8: with culling enabled, the surviving draw-call and triangle counts an
\* Update publishes in frame N are the counter values the pass of frame N-1
\* copied to the read-back buffers.  Stated for the Updates that find the
\* read-back buffers created and the GPU done with every submitted frame, so
\* that the previous frame's copy, if it recorded one, has landed.
C8_PublishesPreviousFrameReadBack ==
  [][ ( /\ lastOp'.op = "Update"
        /\ lastOp'.cvars.cullingEnabled
        /\ handles["_drawCountReadBackBuffer"] # Invalid
        /\ frames >= 1
        /\ inFlight = <<>> )
      => /\ lastReadBack.frame = frames
         /\ _numSurvivingDrawCalls' = lastReadBack.drawCount
         /\ _numSurvivingTriangles' = lastReadBack.triangleCount ]_vars

\* after a Clear the pass of the previous frame returned early and copied
\* nothing, and the Update publishes the survivors of an older frame while
\* no draw call is left
C8_StaleAfterClear ==
  /\ lastOp.op = "Update"
  /\ lastOp.cvars.cullingEnabled
  /\ inFlight = <<>>
  /\ Len(_drawParameters) = 0
  /\ lastReadBack.frame >= 1
  /\ lastReadBack.frame < frames
  /\ _numSurvivingDrawCalls = lastReadBack.drawCount
  /\ _numSurvivingDrawCalls > 0

\* the indirect draws among recorded commands
IndirectDraws(cmds) ==
  { i \in 1..Len(cmds) : cmds[i].cmd = "DrawIndexedIndirectCount" }

\* C9: the frame a Render records over a non-empty draw-parameter array holds
\* exactly one indirect draw; its argument buffer is the culled argument
\* buffer if culling is enabled and the unculled one otherwise, its count
\* buffer is the draw-count buffer, and its maximum draw count is the number
\* of draw parameters.
C9_OneIndirectDraw ==
  [][ ( /\ lastOp'.op = "Render"
        /\ ~lastOp'.cvars.minimized
        /\ Len(_drawParameters) > 0 )
      => LET cmds == inFlight'[Len(inFlight')].commands
             draws == IndirectDraws(cmds)
         IN /\ Cardinality(draws) = 1
            /\ \A i \in draws :
                 /\ cmds[i].buf = IF lastOp'.cvars.cullingEnabled
                                  THEN handles["_culledArgumentBuffer"]
                                  ELSE handles["_argumentBuffer"]
                 /\ cmds[i].buf # Invalid
                 /\ handles["_culledArgumentBuffer"] # handles["_argumentBuffer"]
                 /\ cmds[i].src = handles["_drawCountBuffer"]
                 /\ cmds[i].src # Invalid
                 /\ cmds[i].val = Len(_drawParameters) ]_vars

\* two frames in flight over the same buffers, the first recorded with
\* culling enabled and drawing from the culled arguments, the second with
\* culling disabled and drawing from the unculled ones, both bounded by the
\* same total of more than one draw call
C9_Witness ==
  /\ lastOp.op = "Render"
  /\ ~lastOp.cvars.cullingEnabled
  /\ Len(_drawParameters) > 1
  /\ Len(inFlight) = 2
  /\ \E i \in IndirectDraws(inFlight[1].commands) :
       /\ inFlight[1].commands[i].buf = handles["_culledArgumentBuffer"]
       /\ inFlight[1].commands[i].val = Len(_drawParameters)
  /\ \E i \in IndirectDraws(inFlight[2].commands) :
       /\ inFlight[2].commands[i].buf = handles["_argumentBuffer"]
       /\ inFlight[2].commands[i].val = Len(_drawParameters)

\* C10: an ExecuteLoad that finds the pending queue empty changes nothing: the
\* CPU-side arrays, the loaded models and the total triangle count, the
\* buffer handles and the descriptor bindings, the buffers and the destroy
\* queue, the published counts and the count of rebuilds all stay as they are.
C10_EmptyLoadChangesNothing ==
  [][ ( /\ lastOp'.op = "ExecuteLoad"
        /\ _mapObjectsToBeLoaded = <<>> )
      => UNCHANGED << cpuVars, statVars, gpuVars, _cullingConstantBuffer,
                      rendererVars, fileLoads, rebuilds >> ]_vars

\* an ExecuteLoad on an empty queue after an earlier load built the buffers:
\* no Renderer call was made and the scene is as the earlier load left it
C10_Witness ==
  /\ lastOp.op = "ExecuteLoad"
  /\ lastOp.calls = <<>>
  /\ _mapObjectsToBeLoaded = <<>>
  /\ rebuilds = 1
  /\ Len(_drawParameters) > 0
  /\ handles["_argumentBuffer"] # Invalid
  /\ destroyQueue # <<>>

\* the state a registration leaves alone: everything the load builds
loadedState ==
  << _mapObjectPlacementDetails, _loadedMapObjects, _nameHashToIndexMap, _indices,
     _vertices, _drawParameters, _instances, _instanceLookupData, _materials,
     _materialParameters, _cullingData, _mapObjectTextures, _numTriangles,
     statVars, gpuVars, _cullingConstantBuffer, rendererVars, fileLoads, rebuilds >>
IsRegisterStep == lastOp'.op \in {"Register", "RegisterChunk"}

\* C11: a registration changes only the pending queue, which it extends at
\* its end, the unique-ID counter and the chunk offset map, and loads
\* nothing; an ExecuteLoad leaves the pending queue empty, having made an
\* instance of every pending placement whose asset loads, and an ExecuteLoad
\* directly after an ExecuteLoad changes nothing.
C11_RegistrationDefersLoad ==
  [][ /\ IsRegisterStep =>
           /\ UNCHANGED loadedState
           /\ Len(_mapObjectsToBeLoaded') >= Len(_mapObjectsToBeLoaded)
           /\ SubSeq(_mapObjectsToBeLoaded', 1, Len(_mapObjectsToBeLoaded))
                = _mapObjectsToBeLoaded
      /\ lastOp'.op = "ExecuteLoad" => _mapObjectsToBeLoaded' = <<>>
      /\ IsLoadStep =>
           Len(_instances') - Len(_instances)
             = Len(LoadableEntries(_mapObjectsToBeLoaded, lastOp'.fs, _nameHashToIndexMap))
      /\ (lastOp.op = "ExecuteLoad" /\ lastOp'.op = "ExecuteLoad") =>
           UNCHANGED << cpuVars, statVars, gpuVars, _cullingConstantBuffer,
                        rendererVars, fileLoads, rebuilds >> ]_vars

\* the two placements of a chunk were queued by one registration and made
\* instances by the first of two ExecuteLoads, the second finding nothing
C11_Witness ==
  /\ lastOp.op = "ExecuteLoad"
  /\ lastOp.calls = <<>>
  /\ registerCalls = 1
  /\ DOMAIN _mapChunkToPlacementOffset # {}
  /\ rebuilds = 1
  /\ clears = 0
  /\ Len(_instances) = 2
  /\ _mapObjectsToBeLoaded = <<>>

\* a file that can be opened and holds a header with the expected token and
\* another version than the expected one
VersionDiffers(file, token, expected) ==
  /\ file # Missing
  /\ Len(file) >= 2
  /\ file[1] = token
  /\ file[2] # expected
ExpectedVersionError(file, expected) ==
  IF file[2] < expected THEN "older" ELSE "newer"
\* the loader state a batch starts from, for the calls examined below
BatchStart == LoaderState(CpuArrays, NewLoadedMapObject(Len(_loadedMapObjects)))
MismatchedMeshes(nameID, variant) ==
  { i \in 1..Len(MeshFiles(nameID, variant)) :
      VersionDiffers(MeshFiles(nameID, variant)[i], MAP_OBJECT_TOKEN, MAP_OBJECT_VERSION) }
HasVersionMismatch(nameID, variant) ==
  \/ VersionDiffers(RootFile(nameID, variant), MAP_OBJECT_ROOT_TOKEN, MAP_OBJECT_ROOT_VERSION)
  \/ MismatchedMeshes(nameID, variant) # {}

\* C12: a root or mesh file whose header version differs from the expected
\* one makes its load return false, with the "older" error for a lower
\* version (expected - 1 among them) and the "newer" error for a higher one;
\* the asset is not loaded, no instance is made of its placements, and the
\* other placements of the batch are loaded.
C12_VersionMismatchRejected ==
  [][ IsLoadStep =>
        \A n \in DOMAIN lastOp'.fs :
          LET v == lastOp'.fs[n]
              rootFile == RootFile(n, v)
              root == LoadRoot(rootFile, BatchStart)
          IN /\ VersionDiffers(rootFile, MAP_OBJECT_ROOT_TOKEN, MAP_OBJECT_ROOT_VERSION) =>
                  /\ ~root.ok
                  /\ root.error = ExpectedVersionError(rootFile, MAP_OBJECT_ROOT_VERSION)
                  /\ rootFile[2] = MAP_OBJECT_ROOT_VERSION - 1 => root.error = "older"
                  /\ root.st = BatchStart
             /\ \A i \in MismatchedMeshes(n, v) :
                  LET meshFile == MeshFiles(n, v)[i]
                      mesh == LoadMesh(meshFile, BatchStart)
                  IN /\ ~mesh.ok
                     /\ mesh.error = ExpectedVersionError(meshFile, MAP_OBJECT_VERSION)
                     /\ meshFile[2] = MAP_OBJECT_VERSION - 1 => mesh.error = "older"
                     /\ mesh.st = BatchStart
             /\ HasVersionMismatch(n, v) =>
                  /\ ~LoadMapObject(n, v, BatchStart).ok
                  /\ NameHash(n) \notin DOMAIN _nameHashToIndexMap'
                  /\ Len(_instances') - Len(_instances)
                       = Len(SelectSeq(_mapObjectsToBeLoaded,
                                       LAMBDA e : Loads(e, lastOp'.fs, _nameHashToIndexMap)))
                  /\ \A k \in (Len(_instances) + 1)..Len(_instances') :
                       \A p \in PlacementIDs :
                         _instances'[k].instanceMatrix = InstanceMatrix(PlacementTable[p])
                           => PlacementTable[p].nameID # n ]_vars

\* a batch of two placements: the root file of the first asset is of the
\* version before the expected one, the second asset was loaded and instanced
C12_Witness ==
  /\ lastOp.op = "ExecuteLoad"
  /\ DOMAIN lastOp.fs = NameIDs
  /\ lastOp.fs[2] = "ok"
  /\ VersionDiffers(RootFile(1, lastOp.fs[1]), MAP_OBJECT_ROOT_TOKEN, MAP_OBJECT_ROOT_VERSION)
  /\ RootFile(1, lastOp.fs[1])[2] = MAP_OBJECT_ROOT_VERSION - 1
  /\ LoadRoot(RootFile(1, lastOp.fs[1]), BatchStart).error = "older"
  /\ Len(_instances) = 1
  /\ Len(_loadedMapObjects) = 1
  /\ NameHash(1) \notin DOMAIN _nameHashToIndexMap

\* the last mesh file of an asset is of a later version than expected: the
\* asset is not loaded although its root and its first mesh were read
C12_WitnessMesh ==
  /\ lastOp.op = "ExecuteLoad"
  /\ 1 \in DOMAIN lastOp.fs
  /\ MismatchedMeshes(1, lastOp.fs[1]) = {2}
  /\ LoadMesh(MeshFiles(1, lastOp.fs[1])[2], BatchStart).error = "newer"
  /\ NameHash(1) \notin DOMAIN _nameHashToIndexMap
  /\ Len(_materials) > 0

Covers(outer, inner) ==
  \A a \in 1..3 : /\ outer.minBoundingBox[a] <= inner.minBoundingBox[a]
                  /\ outer.maxBoundingBox[a] >= inner.maxBoundingBox[a]

\* C13: in every reachable state, the culling-data entry an instance-lookup
\* entry refers to is the aggregate box of the entry's model, stored at the
\* model's culling-data offset, and it covers the box of every render batch
\* of that model, of which the model holds one per render batch.
C13_CullingDataCoversBatches ==
  \A j \in 1..Len(_instanceLookupData) :
    LET entry == _instanceLookupData[j]
        model == _loadedMapObjects[entry.loadedObjectID + 1]
        aggregate == _cullingData[entry.cullingDataID + 1]
    IN /\ entry.cullingDataID = model.baseCullingDataOffset
       /\ Len(model.cullingData) = Len(model.renderBatches)
       /\ \A b \in 1..Len(model.cullingData) : Covers(aggregate, model.cullingData[b])
       /\ \A a \in 1..3 :
            /\ \E b \in 1..Len(model.cullingData) :
                 aggregate.minBoundingBox[a] = model.cullingData[b].minBoundingBox[a]
            /\ \E b \in 1..Len(model.cullingData) :
                 aggregate.maxBoundingBox[a] = model.cullingData[b].maxBoundingBox[a]

\* the second loaded model has three render batches in two meshes; its
\* aggregate box, the second culling-data entry, is larger than each of them
C13_Witness ==
  /\ Len(_loadedMapObjects) = 2
  /\ Len(_loadedMapObjects[2].renderBatches) = 3
  /\ Len(_cullingData) = 2
  /\ \E j \in 1..Len(_instanceLookupData) :
       /\ _instanceLookupData[j].loadedObjectID = 1
       /\ _instanceLookupData[j].cullingDataID = 1
  /\ _cullingData[2].minBoundingBox = <<-5, -1, -1>>
  /\ _cullingData[2].maxBoundingBox = <<2, 3, 6>>
  /\ \A b \in 1..3 : _loadedMapObjects[2].cullingData[b].minBoundingBox
                       # _cullingData[2].minBoundingBox

\* old is a prefix of new: new holds every entry of old, at its index
IsPrefix(old, new) ==
  /\ Len(old) <= Len(new)
  /\ \A i \in 1..Len(old) : new[i] = old[i]

\* C14: a step other than Clear only appends to the instance, draw-parameter,
\* instance-lookup, placement-details and culling-data arrays, every entry
\* they held staying at its index with its contents; a loaded model keeps its
\* index, its objectID, its name hash and what was read from its files.
C14_AppendOnlyBetweenClears ==
  [][ lastOp'.op # "Clear" =>
        /\ IsPrefix(_instances, _instances')
        /\ IsPrefix(_drawParameters, _drawParameters')
        /\ IsPrefix(_instanceLookupData, _instanceLookupData')
        /\ IsPrefix(_mapObjectPlacementDetails, _mapObjectPlacementDetails')
        /\ IsPrefix(_cullingData, _cullingData')
        /\ Len(_loadedMapObjects) <= Len(_loadedMapObjects')
        /\ \A i \in 1..Len(_loadedMapObjects) :
             /\ _loadedMapObjects'[i].objectID = _loadedMapObjects[i].objectID
             /\ _loadedMapObjects'[i].objectID = i - 1
             /\ _loadedMapObjects'[i].renderBatches = _loadedMapObjects[i].renderBatches
             /\ _loadedMapObjects'[i].cullingData = _loadedMapObjects[i].cullingData
             /\ _loadedMapObjects'[i].baseCullingDataOffset
                  = _loadedMapObjects[i].baseCullingDataOffset
             /\ IsPrefix(_loadedMapObjects[i].instanceIDs, _loadedMapObjects'[i].instanceIDs)
        /\ \A h \in DOMAIN _nameHashToIndexMap :
             /\ h \in DOMAIN _nameHashToIndexMap'
             /\ _nameHashToIndexMap'[h] = _nameHashToIndexMap[h] ]_vars

\* a second ExecuteLoad, with no Clear before it, has loaded another asset
\* and added its instance behind the first one
C14_Witness ==
  /\ lastOp.op = "ExecuteLoad"
  /\ lastOp.calls # <<>>
  /\ rebuilds = 2
  /\ clears = 0
  /\ Len(_instances) = 2
  /\ _instances[1] # _instances[2]
  /\ Len(_loadedMapObjects) = 2
  /\ Len(_cullingData) = 2
  /\ Len(fileLoads) = 2

\* C15: after Clear there are no loaded models, no instances, no draw calls
\* and no triangles in the total, and no placement is pending, so that an
\* ExecuteLoad after it without a new registration loads nothing.
C15_ClearIsFull ==
  [][ lastOp'.op = "Clear" =>
        /\ Len(_loadedMapObjects') = 0
        /\ Len(_instances') = 0
        /\ Len(_drawParameters') = 0
        /\ _uniqueIdCounter' = EmptyMap
        /\ _numTriangles' = 0
        /\ _mapObjectsToBeLoaded' = <<>> ]_vars

\* the one placement registered, before the Clear, has been loaded by the
\* ExecuteLoad after the Clear
C15_PendingSurvivesClear ==
  /\ lastOp.op = "ExecuteLoad"
  /\ registerCalls = 1
  /\ clears = 1
  /\ rebuilds = 1
  /\ Len(_instances) = 1
  /\ _uniqueIdCounter = EmptyMap

\* after Clear the total triangle count is the one of the cleared scene
C15_StaleTriangles ==
  /\ lastOp.op = "Clear"
  /\ _drawParameters = <<>>
  /\ _instances = <<>>
  /\ _numTriangles > 0

\* the positions of an instance ID in the instance-ID list of a loaded model
PositionsIn(model, instanceID) ==
  { i \in 1..Len(model.instanceIDs) : model.instanceIDs[i] = instanceID }
ModelsListing(instanceID) ==
  { m \in 1..Len(_loadedMapObjects) : PositionsIn(_loadedMapObjects[m], instanceID) # {} }
InstanceCounts == [m \in 1..Len(_loadedMapObjects) |-> _loadedMapObjects[m].instanceCount]

\* C16: in every reachable state, the instance count of each loaded model is
\* the length of its instance-ID list; every instance ID is listed once, by
\* the model the instance was created from and by no other; the instance
\* counts of the models sum to the number of instances.
C16_InstanceCounts ==
  /\ \A m \in 1..Len(_loadedMapObjects) :
       /\ _loadedMapObjects[m].instanceCount = Len(_loadedMapObjects[m].instanceIDs)
       /\ \A i \in 1..Len(_loadedMapObjects[m].instanceIDs) :
            _loadedMapObjects[m].instanceIDs[i] \in 0..(Len(_instances) - 1)
  /\ \A k \in InstanceIDs :
       /\ ModelsListing(k - 1) = {ModelOfInstance(k).objectID + 1}
       /\ Cardinality(PositionsIn(ModelOfInstance(k), k - 1)) = 1
  /\ SumSeq(InstanceCounts) = Len(_instances)

\* two loaded models, each listing the one instance made of it
C16_Witness ==
  /\ Len(_loadedMapObjects) = 2
  /\ _loadedMapObjects[1].instanceIDs = <<0>>
  /\ _loadedMapObjects[2].instanceIDs = <<1>>
  /\ _loadedMapObjects[2].instanceCount = 1
  /\ Len(_instances) = 2

\* one loaded model listing both instances, which two ExecuteLoads made
C16_WitnessShared ==
  /\ Len(_loadedMapObjects) = 1
  /\ _loadedMapObjects[1].instanceIDs = <<0, 1>>
  /\ _loadedMapObjects[1].instanceCount = 2
  /\ rebuilds = 2

\* C17: requests are enqueued at any point of the render thread's update; no
\* request is taken from the queue twice; the drain of a frame ends only
\* when every request that was pending when it started has been taken, in
\* that drain; and no request is taken outside the drain, so none is applied
\* while the bone instances of the frame are animated.
C17_DrainedOncePerFrame ==
  [][ /\ \A id \in 1..Len(taken') : taken'[id] <= 1
      /\ lastAnim'.op = "EndDrain" =>
           /\ \A id \in drainSnapshot : taken'[id] = 1
           /\ _animationRequests = <<>>
      /\ lastAnim'.op = "BeginUpdate" =>
           \A id \in drainSnapshot' : taken[id] = 0
      /\ (\E id \in 1..Len(taken) : taken'[id] # taken[id]) =>
           /\ animPhase = "drain"
           /\ animPhase' = "drain"
           /\ Len(_animationRequests') = Len(_animationRequests) - 1
      /\ animPhase = "animate" =>
           /\ \A id \in 1..Len(taken) : taken'[id] = taken[id]
           /\ IsPrefix(_animationRequests, _animationRequests') ]_vars

\* the first request was pending when the drain started and has been taken;
\* the second was enqueued while the first instance had been animated and the
\* second not yet, and waits for the next frame
C17_Witness ==
  /\ animPhase = "animate"
  /\ animCursor = 1
  /\ Len(_cmodelInstances) = 2
  /\ drainSnapshot = {1}
  /\ taken = <<1, 0>>
  /\ Len(_animationRequests) = 1
  /\ _animationRequests[1].id = 2

\* the bone count of the instance added last
NumBonesOfLast(instances) == AnimationModelInfoTable[instances[Len(instances)].modelId + 1].numBones
Within(frame, outer) ==
  /\ outer.offset <= frame.offset
  /\ frame.offset + frame.size <= outer.offset + outer.size

\* C18: an allocation of bone ranges made when both allocators hold a
\* released range of at least the bone count of the instance returns ranges
\* inside released ranges, and neither backing buffer grows.
C18_ReleasedRangeReused ==
  [][ ( /\ lastAnim'.op = "Allocate"
        /\ FittingFrames(_animationBoneDeformRangeAllocator,
                         NumBonesOfLast(_cmodelInstances')) # {}
        /\ FittingFrames(_animationBoneInstancesRangeAllocator,
                         NumBonesOfLast(_cmodelInstances')) # {} )
      => LET k == Len(_cmodelInstances')
             deform == _instanceBoneDeformRangeFrames'[k]
             state == _instanceBoneInstanceRangeFrames'[k]
         IN /\ deform.size = NumBonesOfLast(_cmodelInstances')
            /\ state.size = NumBonesOfLast(_cmodelInstances')
            /\ \E f \in _animationBoneDeformRangeAllocator.free : Within(deform, f)
            /\ \E f \in _animationBoneInstancesRangeAllocator.free : Within(state, f)
            /\ _cmodelInstances'[k].boneDeformOffset = deform.offset
            /\ _cmodelInstances'[k].boneInstanceDataOffset = state.offset
            /\ _animationBoneDeformRangeAllocator'.size = _animationBoneDeformRangeAllocator.size
            /\ _animationBoneInstancesRangeAllocator'.size
                 = _animationBoneInstancesRangeAllocator.size
            /\ Len(_animationBoneInstances') = Len(_animationBoneInstances) ]_vars

\* an instance of two bones was released and an instance of one bone was
\* given the start of its ranges; the buffers still hold two bones
C18_Witness ==
  /\ lastAnim.op = "Allocate"
  /\ Len(_cmodelInstances) = 2
  /\ ~_cmodelInstances[1].live
  /\ _instanceBoneInstanceRangeFrames = <<RangeFrame(0, 2), RangeFrame(0, 1)>>
  /\ _instanceBoneDeformRangeFrames = <<RangeFrame(0, 2), RangeFrame(0, 1)>>
  /\ _animationBoneInstancesRangeAllocator = [size |-> 2, free |-> {RangeFrame(1, 1)}]
  /\ _animationBoneDeformRangeAllocator.size = 2
  /\ Len(_animationBoneInstances) = 2

\* the sequences of the model of an instance, as entries of the sequence table
SequencesOfInstance(instanceId) ==
  LET modelInfo == AnimationModelInfoTable[_cmodelInstances[instanceId + 1].modelId + 1]
  IN modelInfo.sequenceOffset..(modelInfo.sequenceOffset + modelInfo.numSequences - 1)

\* C19: a request taken from the queue writes no bone instance outside the
\* range of its instance and reads no sequence outside those of the model of
\* its instance; when its sequenceID is not below the number of sequences of
\* that model, no bone instance changes and nothing is read or written.
C19_UnknownSequenceIgnored ==
  [][ lastAnim'.op = "DrainRequest" =>
        LET request == lastAnim'.request IN
        /\ \A i \in 1..Len(_animationBoneInstances) :
             i \notin lastAnim'.writes => _animationBoneInstances'[i] = _animationBoneInstances[i]
        /\ Len(_animationBoneInstances') = Len(_animationBoneInstances)
        /\ request.instanceId \in LiveInstanceIds =>
             /\ lastAnim'.writes
                  \subseteq RangeCells(_instanceBoneInstanceRangeFrames[request.instanceId + 1])
             /\ lastAnim'.sequenceReads \subseteq SequencesOfInstance(request.instanceId)
             /\ \A q \in lastAnim'.sequenceReads : q + 1 \in 1..Len(AnimationSequenceTable)
             /\ request.sequenceId
                  >= GetNumSequencesForModelId(_cmodelInstances[request.instanceId + 1].modelId)
                  => /\ _animationBoneInstances' = _animationBoneInstances
                     /\ lastAnim'.writes = {}
                     /\ lastAnim'.sequenceReads = {} ]_vars

\* an instance of a model with two sequences plays its second sequence in a
\* loop when a request for a third sequence is taken, and plays on
C19_Witness ==
  /\ lastAnim.op = "DrainRequest"
  /\ lastAnim.request.id = 2
  /\ lastAnim.request.instanceId \in LiveInstanceIds
  /\ _cmodelInstances[lastAnim.request.instanceId + 1].modelId = 0
  /\ lastAnim.request.sequenceId = 2
  /\ lastAnim.request.isPlaying
  /\ \A i \in RangeCells(_instanceBoneInstanceRangeFrames[lastAnim.request.instanceId + 1]) :
       /\ _animationBoneInstances[i].sequenceIndex = 1
       /\ _animationBoneInstances[i].animateState = PLAY_LOOP

\* the CPU-side arrays the pass and the culling refer to
mirrorArrays == << _instances, _drawParameters, _instanceLookupData, _cullingData >>

\* C20: Update, the map-object pass of Render and the GPU's execution of the
\* frame leave the instance, draw-parameter, instance-lookup and culling-data
\* arrays as they are; a step that changes one of them is an ExecuteLoad or a
\* Clear.
C20_RenderPhaseReadsOnly ==
  [][ /\ lastOp'.op \in {"Update", "Render", "GPUComplete"} => UNCHANGED mirrorArrays
      /\ mirrorArrays' # mirrorArrays => lastOp'.op \in {"ExecuteLoad", "Clear"} ]_vars

\* culling is enabled and the frame before culled all but one draw call: the
\* Update has published one surviving draw call of several, and every draw
\* parameter is still there
C20_Witness ==
  /\ lastOp.op = "Update"
  /\ lastOp.cvars.cullingEnabled
  /\ frames >= 1
  /\ Len(_drawParameters) > 1
  /\ Len(_instanceLookupData) = Len(_drawParameters)
  /\ _numSurvivingDrawCalls = 1
  /\ lastReadBack.drawCount = 1

(***************************************************************************)
(* The command order of the map-object pass.                               *)
(***************************************************************************)
\* the step of the pass a recorded command belongs to
PassStep(c) ==
  CASE c.cmd = "FillBuffer" -> "reset"
    [] c.cmd = "Dispatch" -> "cull"
    [] c.cmd = "PipelineBarrier" /\ c.kind = "ComputeWriteToIndirectArguments" -> "barrier"
    [] c.cmd = "DrawIndexedIndirectCount" -> "draw"
    [] c.cmd = "CopyBuffer" -> "readback"
    [] OTHER -> "other"

PassSteps(cmds) ==
  LET steps == SelectSeq(cmds, LAMBDA c : PassStep(c) # "other")
  IN [i \in 1..Len(steps) |-> PassStep(steps[i])]

\* the descriptor set the dispatch of a command list runs with
RECURSIVE DispatchSet(_, _)
DispatchSet(cmds, set) ==
  IF cmds = <<>> \/ cmds[1].cmd = "Dispatch" THEN set
  ELSE DispatchSet(Tail(cmds), IF cmds[1].cmd = "BindDescriptorSet" THEN cmds[1].set ELSE set)

\* the CPU array behind a binding of the culling descriptor set
CullingArrays ==
  [ _packedInstanceLookup |-> _instanceLookupData,
    _instanceData |-> _instances,
    _packedCullingData |-> _cullingData,
    _drawCommands |-> _drawParameters,
    _culledDrawCommands |-> _drawParameters ]

\* C21: the frame a Render records with culling enabled over a non-empty
\* draw-parameter array holds, in this order, the two counter fills, the cull
\* dispatch, the two compute-write-to-indirect-arguments barriers, the
\* indirect draw and the two copies to the read-back buffers; and the buffers
\* the dispatch is bound to are those of the last rebuild, already holding
\* the arrays as the last ExecuteLoad left them.
C21_PassCommandOrder ==
  [][ ( /\ lastOp'.op = "Render"
        /\ ~lastOp'.cvars.minimized
        /\ lastOp'.cvars.cullingEnabled
        /\ Len(_drawParameters) > 0 )
      => LET cmds == inFlight'[Len(inFlight')].commands
             set == DispatchSet(cmds, EmptyMap)
         IN /\ PassSteps(cmds) = << "reset", "reset", "cull", "barrier", "barrier",
                                    "draw", "readback", "readback" >>
            /\ DOMAIN set = CullingBindings
            /\ \A n \in DOMAIN CullingArrays :
                 /\ set[n] \in DOMAIN buffers'
                 /\ buffers'[set[n]].data = CullingArrays[n]
            /\ set["_packedInstanceLookup"] = handles["_instanceLookupBuffer"]
            /\ set["_instanceData"] = handles["_instanceBuffer"]
            /\ set["_packedCullingData"] = handles["_cullingDataBuffer"]
            /\ set["_drawCommands"] = handles["_argumentBuffer"]
            /\ set["_culledDrawCommands"] = handles["_culledArgumentBuffer"] ]_vars

\* a second batch was loaded and the buffers rebuilt between two frames; the
\* frame recorded after it culls over the arrays of both batches
C21_Witness ==
  /\ lastOp.op = "Render"
  /\ lastOp.cvars.cullingEnabled
  /\ rebuilds = 2
  /\ frames >= 2
  /\ Len(_instances) = 2
  /\ PassSteps(inFlight[Len(inFlight)].commands)
       = << "reset", "reset", "cull", "barrier", "barrier", "draw", "readback", "readback" >>
  /\ buffers[DispatchSet(inFlight[Len(inFlight)].commands, EmptyMap)["_drawCommands"]].data
       = _drawParameters

(***************************************************************************)
(* Barriers before the indirect draw.                                      *)
(***************************************************************************)
\* the descriptor set bound when command i of a list runs
SetAt(cmds, i) ==
  LET binds == { j \in 1..(i - 1) : cmds[j].cmd = "BindDescriptorSet" }
  IN IF binds = {} THEN EmptyMap
     ELSE cmds[CHOOSE j \in binds : \A k \in binds : k <= j].set

\* the buffers command i writes, and the kind of write: the cull shader
\* writes the culled arguments and both counters
WrittenBy(cmds, i) ==
  CASE cmds[i].cmd \in {"FillBuffer", "CopyBuffer"} -> {cmds[i].buf}
    [] cmds[i].cmd = "Dispatch" ->
         LET set == SetAt(cmds, i)
         IN IF "_culledDrawCommands" \in DOMAIN set
            THEN { set["_culledDrawCommands"], set["_drawCount"], set["_triangleCount"] }
            ELSE {}
    [] OTHER -> {}

\* the barrier that makes a write of command i visible to an indirect draw
IndirectBarrierKind(cmds, i) ==
  IF cmds[i].cmd = "Dispatch" THEN "ComputeWriteToIndirectArguments"
  ELSE "TransferDestToIndirectArguments"

\* the commands before the draw d that write buffer b
WritesBefore(cmds, d, b) == { i \in 1..(d - 1) : b \in WrittenBy(cmds, i) }

\* C22: in the frame a Render records over a non-empty draw-parameter array,
\* each of the two buffers the indirect draw reads its arguments and its
\* count from that is written earlier in the frame has, between its last
\* write and the draw, a barrier on that buffer from the kind of that write
\* to indirect-argument visibility; the draw-count buffer is written in
\* every such frame.
C22_BarrierBeforeIndirectDraw ==
  [][ ( /\ lastOp'.op = "Render"
        /\ ~lastOp'.cvars.minimized
        /\ Len(_drawParameters) > 0 )
      => LET cmds == inFlight'[Len(inFlight')].commands
         IN /\ IndirectDraws(cmds) # {}
            /\ \A d \in IndirectDraws(cmds) :
                 /\ WritesBefore(cmds, d, cmds[d].src) # {}
                 /\ \A b \in {cmds[d].buf, cmds[d].src} :
                      LET writes == WritesBefore(cmds, d, b) IN
                      writes # {} =>
                        LET last == CHOOSE i \in writes : \A k \in writes : k <= i
                        IN \E j \in (last + 1)..(d - 1) :
                             /\ cmds[j].cmd = "PipelineBarrier"
                             /\ cmds[j].buf = b
                             /\ cmds[j].kind = IndirectBarrierKind(cmds, last) ]_vars

\* a frame recorded with culling enabled: the dispatch is the last write of
\* both the culled argument buffer and the draw-count buffer, and the draw
\* reads both
C22_Witness ==
  /\ lastOp.op = "Render"
  /\ lastOp.cvars.cullingEnabled
  /\ Len(_drawParameters) > 0
  /\ LET cmds == inFlight[Len(inFlight)].commands IN
     \E d \in IndirectDraws(cmds) :
       \A b \in {cmds[d].buf, cmds[d].src} :
         \E i \in WritesBefore(cmds, d, b) :
           /\ cmds[i].cmd = "Dispatch"
           /\ \A k \in WritesBefore(cmds, d, b) : k <= i

\* a frame recorded with culling disabled: the fill is the only write of the
\* draw-count buffer and the unculled argument buffer is not written
C22_WitnessUnculled ==
  /\ lastOp.op = "Render"
  /\ ~lastOp.cvars.cullingEnabled
  /\ Len(_drawParameters) > 0
  /\ LET cmds == inFlight[Len(inFlight)].commands IN
     \E d \in IndirectDraws(cmds) :
       /\ WritesBefore(cmds, d, cmds[d].buf) = {}
       /\ \E i \in WritesBefore(cmds, d, cmds[d].src) : cmds[i].cmd = "FillBuffer"

(***************************************************************************)
(* The counters are written before they are used.                          *)
(***************************************************************************)
\* the commands of a list that read buffer b: the dispatch through its
\* bindings, the indirect draw through its count, a copy through its source
UsesOf(cmds, b) ==
  { i \in 1..Len(cmds) :
      \/ cmds[i].cmd = "Dispatch" /\ b \in WrittenBy(cmds, i)
      \/ cmds[i].cmd \in {"DrawIndexedIndirectCount", "CopyBuffer"} /\ cmds[i].src = b }

\* the value a counter starts a frame with: zero if the frame culls, the
\* total it counts otherwise
CounterSeed(handle, cullingEnabled) ==
  CASE cullingEnabled -> 0
    [] handle = "_drawCountBuffer" -> Len(_drawParameters)
    [] OTHER -> _numTriangles

\* C23: in the frame a Render records over a non-empty draw-parameter array,
\* every command that reads the draw-count buffer or the triangle-count
\* buffer (the cull dispatch, the indirect draw, the copy to the read-back
\* buffer) comes after a fill of that buffer: with zero if culling is
\* enabled, with the total it counts if culling is disabled.
C23_CountersWrittenBeforeUse ==
  [][ ( /\ lastOp'.op = "Render"
        /\ ~lastOp'.cvars.minimized
        /\ Len(_drawParameters) > 0 )
      => LET cmds == inFlight'[Len(inFlight')].commands IN
         \A handle \in {"_drawCountBuffer", "_triangleCountBuffer"} :
           /\ UsesOf(cmds, handles[handle]) # {}
           /\ \A u \in UsesOf(cmds, handles[handle]) :
                \E f \in 1..(u - 1) :
                  /\ cmds[f].cmd = "FillBuffer"
                  /\ cmds[f].buf = handles[handle]
                  /\ cmds[f].val = CounterSeed(handle, lastOp'.cvars.cullingEnabled) ]_vars

\* one batch loaded, no Clear, every frame completed and the last one copied
\* the counters: Update reads every draw call as surviving and a triangle
\* count that is not the total
C23_TriangleCounterLeftOver ==
  /\ lastOp.op = "Update"
  /\ lastOp.cvars.cullingEnabled
  /\ rebuilds = 1 /\ clears = 0
  /\ inFlight = <<>>
  /\ frames >= 1
  /\ lastReadBack.frame = frames
  /\ Len(_drawParameters) > 0
  /\ _numSurvivingDrawCalls = Len(_drawParameters)
  /\ _numSurvivingTriangles # _numTriangles

(***************************************************************************)
(* The empty pass.                                                         *)
(***************************************************************************)
\* C24: the frame a Render records while the draw-parameter array is empty
\* holds no command at all, so neither a cull dispatch nor a draw, and the
\* pass leaves the culling descriptor set and the culling constants as they
\* were.
C24_EmptyPassRecordsNothing ==
  [][ ( /\ lastOp'.op = "Render"
        /\ ~lastOp'.cvars.minimized
        /\ Len(_drawParameters) = 0 )
      => /\ inFlight'[Len(inFlight')].commands = <<>>
         /\ ~HasDispatch(inFlight'[Len(inFlight')].commands)
         /\ IndirectDraws(inFlight'[Len(inFlight')].commands) = {}
         /\ UNCHANGED << _cullingDescriptorSet, _cullingConstantBuffer >> ]_vars

\* after Clear: the frame before drew with culling enabled, the frame
\* recorded after the Clear is empty although the buffers are still there
C24_Witness ==
  /\ lastOp.op = "Render"
  /\ lastOp.cvars.cullingEnabled
  /\ clears = 1
  /\ _drawParameters = <<>>
  /\ handles["_argumentBuffer"] # Invalid
  /\ Len(inFlight) = 2
  /\ HasDispatch(inFlight[1].commands)
  /\ inFlight[2].commands = <<>>

\* nothing loaded yet: no ExecuteLoad has run with a pending placement
C24_WitnessNothingLoaded ==
  /\ lastOp.op = "Render"
  /\ rebuilds = 0 /\ clears = 0
  /\ inFlight # <<>>
  /\ inFlight[Len(inFlight)].commands = <<>>

\* every load failed: the buffers were rebuilt over empty arrays
C24_WitnessLoadFailed ==
  /\ lastOp.op = "Render"
  /\ rebuilds >= 1 /\ clears = 0
  /\ fileLoads = <<>>
  /\ _instances = <<>>
  /\ inFlight # <<>>
  /\ inFlight[Len(inFlight)].commands = <<>>

(***************************************************************************)
(* The rebuilt buffers and their bindings.                                 *)
(***************************************************************************)
\* the CPU array behind each buffer CreateBuffers rebuilds
RebuiltArrays ==
  [ _instanceLookupBuffer |-> _instanceLookupData,
    _argumentBuffer |-> _drawParameters,
    _culledArgumentBuffer |-> _drawParameters,
    _vertexBuffer |-> _vertices,
    _indexBuffer |-> _indices,
    _instanceBuffer |-> _instances,
    _materialBuffer |-> _materials,
    _materialParametersBuffer |-> _materialParameters,
    _cullingDataBuffer |-> _cullingData ]

\* the buffer member behind each binding CreateBuffers makes
PassBindingHandles ==
  [ _packedInstanceLookup |-> "_instanceLookupBuffer",
    _packedVertices |-> "_vertexBuffer",
    _instanceData |-> "_instanceBuffer",
    _packedMaterialData |-> "_materialBuffer",
    _packedMaterialParams |-> "_materialParametersBuffer" ]
CullingBindingHandles ==
  [ _packedInstanceLookup |-> "_instanceLookupBuffer",
    _instanceData |-> "_instanceBuffer",
    _packedCullingData |-> "_cullingDataBuffer" ]

AllQueuedBuffers == {destroyQueue[i].buffer : i \in 1..Len(destroyQueue)}

\* C25: an ExecuteLoad over a non-empty queue leaves each of the nine
\* rebuilt buffers a buffer that did not exist before, is not queued for
\* destruction and holds exactly its CPU array as the batch left it, with
\* the bindings CreateBuffers makes referring to it; and every descriptor
\* set a Render binds in a recorded frame refers only to the current
\* buffers, none of them queued for destruction.
C25_RebuiltBuffersMirrorArrays ==
  [][ /\ ( lastOp'.op = "ExecuteLoad" /\ rebuilds' # rebuilds )
         => /\ \A h \in DOMAIN RebuiltArrays :
                 /\ handles'[h] # Invalid
                 /\ handles'[h] \notin DOMAIN buffers
                 /\ handles'[h] \in DOMAIN buffers'
                 /\ handles'[h] \notin AllQueuedBuffers'
                 /\ buffers'[handles'[h]].data = RebuiltArrays'[h]
                 /\ Len(buffers'[handles'[h]].data) = Len(RebuiltArrays'[h])
                 /\ \A k \in DOMAIN RebuiltArrays : k # h => handles'[k] # handles'[h]
            /\ \A n \in DOMAIN PassBindingHandles :
                 _passDescriptorSet'[n] = handles'[PassBindingHandles[n]]
            /\ \A n \in DOMAIN CullingBindingHandles :
                 _cullingDescriptorSet'[n] = handles'[CullingBindingHandles[n]]
      /\ ( lastOp'.op = "Render" /\ ~lastOp'.cvars.minimized )
         => LET cmds == inFlight'[Len(inFlight')].commands IN
            \A i \in 1..Len(cmds) :
              cmds[i].cmd = "BindDescriptorSet" =>
                \A n \in DOMAIN cmds[i].set :
                  /\ cmds[i].set[n] \in CurrentBuffers \ {Invalid}
                  /\ cmds[i].set[n] \notin AllQueuedBuffers'
                  /\ cmds[i].set[n] \in DOMAIN buffers' ]_vars

\* a second batch was loaded after a culled frame: the argument buffer is a
\* new one holding the draw parameters of both instances, while the culling
\* descriptor set, not yet rebound by a pass, still names the queued one
C25_Witness ==
  /\ lastOp.op = "ExecuteLoad"
  /\ rebuilds = 2
  /\ Len(_instances) = 2
  /\ buffers[handles["_argumentBuffer"]].data = _drawParameters
  /\ _cullingDescriptorSet["_drawCommands"] \in AllQueuedBuffers
  /\ _cullingDescriptorSet["_drawCommands"] # handles["_argumentBuffer"]
  /\ _passDescriptorSet["_instanceData"] = handles["_instanceBuffer"]

\* the frame recorded after that rebuild binds the new buffers
C25_WitnessRebound ==
  /\ lastOp.op = "Render"
  /\ lastOp.cvars.cullingEnabled
  /\ rebuilds = 2
  /\ Len(_instances) = 2
  /\ AllQueuedBuffers # {}
  /\ _cullingDescriptorSet["_drawCommands"] = handles["_argumentBuffer"]
  /\ HasDispatch(inFlight[Len(inFlight)].commands)

(***************************************************************************)
(* The order of an upload.                                                 *)
(***************************************************************************)
\* the copies among the Renderer calls of a rebuild
CopyCalls(calls) == { i \in 1..Len(calls) : calls[i].call = "CopyBuffer" }

\* the positions at which the calls name buffer b under the given call
CallsOf(calls, call, b) ==
  { i \in 1..Len(calls) : calls[i].call = call /\ calls[i].buffer = b }

\* C26 as stated: in a rebuild every copy comes after the creation of its
\* device buffer, the creation of its staging buffer and the fill of the
\* staging buffer, in this order, and the staging buffer is handed to the
\* destroy queue only after the copy; no copy names a buffer queued earlier.
C26_StagingQueuedAfterCopy ==
  [][ ( lastOp'.op = "ExecuteLoad" /\ rebuilds' # rebuilds )
      => LET calls == lastOp'.calls IN
         \A i \in CopyCalls(calls) :
           /\ \E c1 \in CallsOf(calls, "CreateBuffer", calls[i].buffer) :
              \E c2 \in CallsOf(calls, "CreateBuffer", calls[i].src) :
              \E c3 \in CallsOf(calls, "MapBuffer", calls[i].src) :
              \E c4 \in CallsOf(calls, "QueueDestroyBuffer", calls[i].src) :
                c1 < c2 /\ c2 < c3 /\ c3 < i /\ i < c4
           /\ \A b \in {calls[i].buffer, calls[i].src} :
                \A q \in CallsOf(calls, "QueueDestroyBuffer", b) : i < q ]_vars

\* C26, amended: in a rebuild each of the nine copies ends a run of five
\* consecutive calls: create the device buffer, create the staging buffer,
\* fill the staging buffer, queue the staging buffer for destruction, copy
\* from the staging buffer to the device buffer.  The device buffer is not
\* queued, the staging buffer is queued but still allocated when the copy is
\* issued and after it, and the device buffer ends up with the contents of
\* the staging buffer; the copies a Render records name no queued buffer.
C26_UploadOrder ==
  [][ /\ ( lastOp'.op = "ExecuteLoad" /\ rebuilds' # rebuilds )
         => LET calls == lastOp'.calls IN
            /\ Cardinality(CopyCalls(calls)) = Cardinality(DOMAIN RebuiltArrays)
            /\ \A i \in CopyCalls(calls) :
                 /\ i > 4
                 /\ calls[i - 4] = [call |-> "CreateBuffer", buffer |-> calls[i].buffer,
                                    src |-> Invalid]
                 /\ calls[i - 3] = [call |-> "CreateBuffer", buffer |-> calls[i].src,
                                    src |-> Invalid]
                 /\ calls[i - 2] = [call |-> "MapBuffer", buffer |-> calls[i].src,
                                    src |-> Invalid]
                 /\ calls[i - 1] = [call |-> "QueueDestroyBuffer", buffer |-> calls[i].src,
                                    src |-> Invalid]
                 /\ calls[i].buffer # calls[i].src
                 /\ CallsOf(calls, "QueueDestroyBuffer", calls[i].buffer) = {}
                 /\ {calls[i].buffer, calls[i].src} \cap DOMAIN buffers = {}
                 /\ {calls[i].buffer, calls[i].src} \subseteq DOMAIN buffers'
                 /\ calls[i].src \in AllQueuedBuffers'
                 /\ calls[i].buffer \notin AllQueuedBuffers'
                 /\ buffers'[calls[i].buffer].data = buffers'[calls[i].src].data
      /\ ( lastOp'.op = "Render" /\ ~lastOp'.cvars.minimized )
         => LET cmds == inFlight'[Len(inFlight')].commands IN
            \A i \in 1..Len(cmds) :
              cmds[i].cmd = "CopyBuffer" =>
                /\ {cmds[i].buf, cmds[i].src} \cap AllQueuedBuffers' = {}
                /\ {cmds[i].buf, cmds[i].src} \subseteq DOMAIN buffers' ]_vars

\* the second rebuild: the old argument buffer was queued first, and the
\* copy into the new one read a staging buffer that had been queued right
\* before and is still allocated, so the draw parameters arrived
C26_Witness ==
  /\ lastOp.op = "ExecuteLoad"
  /\ rebuilds = 2
  /\ Len(_drawParameters) > 0
  /\ \E i \in CopyCalls(lastOp.calls) :
       /\ lastOp.calls[i].buffer = handles["_argumentBuffer"]
       /\ lastOp.calls[i - 1].call = "QueueDestroyBuffer"
       /\ lastOp.calls[i - 1].buffer = lastOp.calls[i].src
       /\ lastOp.calls[i - 5].call = "QueueDestroyBuffer"
       /\ lastOp.calls[i - 5].buffer \in DOMAIN buffers
       /\ lastOp.calls[i].src \in AllQueuedBuffers
       /\ buffers[lastOp.calls[i].src].data = _drawParameters
       /\ buffers[handles["_argumentBuffer"]].data = _drawParameters

(***************************************************************************)
(* One instance per uniqueID.                                              *)
(***************************************************************************)
UniqueIDOfInstance(k) == PlacementTable[PlacementOfInstance(k)].uniqueID

\* C27: no two live instances come from placements with the same uniqueID,
\* and no uniqueID is pending twice or pending while an instance of it lives.
C27_NoDuplicateUniqueID ==
  /\ \A i, j \in InstanceIDs : i # j => UniqueIDOfInstance(i) # UniqueIDOfInstance(j)
  /\ \A i, j \in 1..Len(_mapObjectsToBeLoaded) :
       i # j => PlacementTable[_mapObjectsToBeLoaded[i].placement].uniqueID
                  # PlacementTable[_mapObjectsToBeLoaded[j].placement].uniqueID
  /\ \A i \in 1..Len(_mapObjectsToBeLoaded), k \in InstanceIDs :
       PlacementTable[_mapObjectsToBeLoaded[i].placement].uniqueID # UniqueIDOfInstance(k)

\* without any Clear, the 257th registration of a placement has queued it a
\* second time and the load has made a second instance of it
C27_DuplicateAfterWrap ==
  /\ clears = 0
  /\ registerCalls = 257
  /\ _uniqueIdCounter[1] = 1
  /\ Len(_instances) = 2
  /\ UniqueIDOfInstance(1) = UniqueIDOfInstance(2)

\* a placement pending at a Clear and registered again after it is loaded
\* twice by the next ExecuteLoad
C27_DuplicateAfterClear ==
  /\ clears = 1
  /\ registerCalls = 2
  /\ lastOp.op = "ExecuteLoad"
  /\ Len(_instances) = 2
  /\ UniqueIDOfInstance(1) = UniqueIDOfInstance(2)

(***************************************************************************)
(* What a failed load leaves behind.                                       *)
(***************************************************************************)
\* the arrays LoadMapObject appends to, the loaded-model list and the map
SharedOf(r) ==
  << r.vertices, r.indices, r.materials, r.materialParameters, r.cullingData,
     r.textures, r.loaded, r.nameHashToIndexMap >>

\* C28: an ExecuteLoad leaves the vertex, index, material, material-parameter
\* and culling-data arrays, the texture array, the loaded-model list and the
\* name-hash map as the same batch without its failing placements leaves
\* them, and the vertex and index buffers it uploads hold just that.
C28_FailedLoadLeavesNoData ==
  [][ IsLoadStep =>
        LET ok == LoadableEntries(_mapObjectsToBeLoaded, lastOp'.fs, _nameHashToIndexMap)
            clean == LoadPlacements(CpuArrays, ok, lastOp'.fs)
        IN /\ SharedOf(CpuArrays)' = SharedOf(clean)
           /\ buffers'[handles'["_vertexBuffer"]].data = clean.vertices
           /\ buffers'[handles'["_indexBuffer"]].data = clean.indices ]_vars

\* the only pending placement failed at its last mesh file: no model and no
\* instance was made, yet the vertices of the meshes read before it and the
\* materials of the root file are in the arrays and in the uploaded buffers
C28_FailedMeshLeavesData ==
  /\ lastOp.op = "ExecuteLoad"
  /\ rebuilds = 1 /\ clears = 0
  /\ \E n \in DOMAIN lastOp.fs : lastOp.fs[n] = "meshMissing"
  /\ _loadedMapObjects = <<>>
  /\ _nameHashToIndexMap = EmptyMap
  /\ _instances = <<>>
  /\ _vertices # <<>>
  /\ _materials # <<>>
  /\ Len(_mapObjectTextures) > 1
  /\ buffers[handles["_vertexBuffer"]].data = _vertices

\* the only pending placement failed inside its root file, cut in the last
\* material record: the materials read before the cut stay
C28_FailedRootLeavesData ==
  /\ lastOp.op = "ExecuteLoad"
  /\ rebuilds = 1 /\ clears = 0
  /\ \E n \in DOMAIN lastOp.fs : lastOp.fs[n] = "truncatedRoot"
  /\ _loadedMapObjects = <<>>
  /\ _instances = <<>>
  /\ _vertices = <<>>
  /\ _materials # <<>>

(***************************************************************************)
(* The published survivors and the totals.                                 *)
(***************************************************************************)
\* C29: after an Update the surviving draw-call count is at most the number
\* of draw parameters and the surviving triangle count at most the total
\* triangle count.
C29_SurvivorsWithinTotals ==
  lastOp.op = "Update" =>
    /\ _numSurvivingDrawCalls <= Len(_drawParameters)
    /\ _numSurvivingTriangles <= _numTriangles

\* the scene was cleared after a culled frame had reported survivors and
\* every frame has completed since: the Update, reading culling as enabled,
\* reports those survivors over an empty draw-parameter array
C29_SurvivorsOfClearedScene ==
  /\ lastOp.op = "Update"
  /\ lastOp.cvars.cullingEnabled
  /\ clears = 1
  /\ inFlight = <<>>
  /\ frames > lastReadBack.frame
  /\ lastReadBack.frame >= 1
  /\ Len(_drawParameters) = 0
  /\ _numSurvivingDrawCalls = lastReadBack.drawCount
  /\ _numSurvivingDrawCalls > Len(_drawParameters)

\* no Clear and no frame yet: the Update reports what the read-back buffers
\* were created with
C29_SurvivorsBeforeFirstFrame ==
  /\ lastOp.op = "Update"
  /\ lastOp.cvars.cullingEnabled
  /\ clears = 0 /\ frames = 0
  /\ _numSurvivingDrawCalls > Len(_drawParameters)
  /\ _numSurvivingTriangles > _numTriangles

(***************************************************************************)
(* The draw count the cull shader is given.                                *)
(***************************************************************************)
\* C30: the frame a Render records with a cull dispatch carries, in the
\* culling constants of its frame index, a maxDrawCount that was written and
\* equals the number of draw parameters, the frustum being locked or not.
C30_MaxDrawCountCoversDispatch ==
  [][ ( /\ lastOp'.op = "Render"
        /\ ~lastOp'.cvars.minimized
        /\ HasDispatch(inFlight'[Len(inFlight')].commands) )
      => /\ inFlight'[Len(inFlight')].constants.written
         /\ inFlight'[Len(inFlight')].constants.maxDrawCount = Len(_drawParameters) ]_vars

\* a second placement was loaded while the frustum was locked: the frame
\* dispatches over the draw parameters of both instances with the
\* maxDrawCount written for the first alone
C30_LoadedWhileLocked ==
  /\ lastOp.op = "Render"
  /\ lastOp.cvars.lockFrustum
  /\ rebuilds = 2
  /\ Len(_instances) = 2
  /\ HasDispatch(inFlight[Len(inFlight)].commands)
  /\ inFlight[Len(inFlight)].constants.written
  /\ inFlight[Len(inFlight)].constants.maxDrawCount > 0
  /\ inFlight[Len(inFlight)].constants.maxDrawCount < Len(_drawParameters)

\* the frustum was locked from the first frame on: the constants of the
\* frame were never written
C30_LockedFromFirstFrame ==
  /\ lastOp.op = "Render"
  /\ lastOp.cvars.lockFrustum
  /\ frames = 1
  /\ HasDispatch(inFlight[Len(inFlight)].commands)
  /\ ~inFlight[Len(inFlight)].constants.written
  /\ ~_cullingConstantBuffer.resource.written

\* the frustum was free in the first frame and locked in the second: the
\* constants were written, but not those of the second frame index
C30_LockedInSecondFrame ==
  /\ lastOp.op = "Render"
  /\ lastOp.cvars.lockFrustum
  /\ frames = 2
  /\ HasDispatch(inFlight[Len(inFlight)].commands)
  /\ _cullingConstantBuffer.resource.written
  /\ _cullingConstantBuffer.resource.maxDrawCount = Len(_drawParameters)
  /\ ~inFlight[Len(inFlight)].constants.written

(***************************************************************************)
(* C31: the frame index, the frame-sync semaphores and the frames on the   *)
(* GPU.                                                                    *)
(***************************************************************************)
IsRenderStep == lastOp'.op = "Render"
IsFrameRendered == IsRenderStep /\ ~lastOp'.cvars.minimized
Submitted == inFlight'[Len(inFlight')]

\* C31: the frame index alternates 0,1,0,1 over the rendered frames and a
\* Render of a minimized window changes nothing; a rendered frame signals the
\* semaphore of its own index and, but for the first rendered frame, waits on
\* the semaphore of the other index, the one the rendered frame before it
\* signals; the GPU never executes two frames at once, and begins them in
\* the order they were rendered.
C31_FrameSync ==
  [][ /\ (IsRenderStep /\ lastOp'.cvars.minimized) =>
           UNCHANGED << cpuVars, statVars, gpuVars, _cullingConstantBuffer, frameVars,
                        rendererVars, inFlight, lastReadBack, syncVars, frames >>
      /\ IsFrameRendered =>
           /\ _frameIndex = frames % 2
           /\ _frameIndex' = 1 - _frameIndex
           /\ Len(inFlight') = Len(inFlight) + 1
           /\ Submitted.number = frames + 1
           /\ Submitted.frameIndex = _frameIndex
           /\ Submitted.signals = {_frameIndex}
           /\ Submitted.waits = (IF frames = 0 THEN {} ELSE {1 - _frameIndex})
      /\ Cardinality(gpuRunning') <= 1
      /\ lastOp'.op = "GPUBegin" =>
           /\ gpuRunning = {}
           /\ gpuRunning' = {inFlight[1].number}
    ]_vars

\* the second rendered frame is held back by the semaphore of the first,
\* which the GPU is still executing; the third was rendered after that
C31_Witness ==
  /\ Len(inFlight) = 2
  /\ gpuRunning = {inFlight[1].number}
  /\ inFlight[2].waits = inFlight[1].signals
  /\ inFlight[2].waits \cap semaphores = {}
  /\ HasDispatch(inFlight[1].commands) /\ HasDispatch(inFlight[2].commands)

\* a Render of the minimized window between two rendered frames
C31_WitnessMinimized ==
  /\ lastOp.op = "Render" /\ lastOp.cvars.minimized
  /\ frames = 1 /\ Len(inFlight) = 1

\* the third rendered frame on the GPU, begun on the signal of the second
C31_WitnessThird ==
  /\ frames = 3 /\ Len(inFlight) = 1
  /\ inFlight[1].number = 3 /\ inFlight[1].frameIndex = 0 /\ inFlight[1].waits = {1}
  /\ gpuRunning = {3} /\ semaphores = {}


(***************************************************************************)
(* C32: the depth pyramid that occlusion culling samples.                  *)
(***************************************************************************)
\* the frame the GPU is executing
Executing == inFlight[CHOOSE i \in 1..Len(inFlight) : inFlight[i].number \in gpuRunning]
IsCullingFrameDone == lastOp'.op = "GPUFinish" /\ HasDispatch(Executing.commands)
SampledPyramid == ExecFrame(Executing, depthPyramid).sampled

\* C32: in every frame whose cull dispatch runs (occlusion culling enabled,
\* as configured), the depth pyramid sampled was built by the pyramid pass of
\* the rendered frame before: not by the frame itself, and not unbuilt.
C32_PyramidOfPreviousFrame ==
  [][ IsCullingFrameDone =>
        /\ SampledPyramid # Unbuilt
        /\ SampledPyramid = Executing.number - 1 ]_vars

\* the first rendered frame culls map objects loaded before it
C32_FirstFrameCulls ==
  /\ frames = 1 /\ gpuRunning = {1}
  /\ HasDispatch(Executing.commands)
  /\ depthPyramid = Unbuilt

\* what holds: the sampled pyramid is never the frame's own, and from the
\* second rendered frame on it is the one built by the frame before
C32_PyramidAfterFirstFrame ==
  [][ IsCullingFrameDone =>
        /\ SampledPyramid = Executing.number - 1
        /\ Executing.number > 1 => SampledPyramid # Unbuilt ]_vars

C32_SecondFrameCulls ==
  /\ frames >= 2 /\ gpuRunning = {2}
  /\ HasDispatch(Executing.commands)
  /\ depthPyramid = 1

(***************************************************************************)
(* C33: the total triangle count after a load.                             *)
(***************************************************************************)
TrianglesOfDraw(drawParameters) == drawParameters.indexCount \div 3

\* C33: after an ExecuteLoad that had pending placements, the triangle count
\* is the sum of floor(indexCount / 3) over every draw parameter in the
\* array: the count before the load over the draw parameters that were
\* there, which the load leaves in place, plus the triangles of the draw
\* parameters the load appended, each counted once.
C33_TrianglesOfAllDraws ==
  [][ IsLoadStep =>
        /\ _numTriangles' =
             SumSeq([i \in 1..Len(_drawParameters') |-> TrianglesOfDraw(_drawParameters'[i])])
        /\ _numTriangles' =
             CountTriangles(_drawParameters)
             + SumSeq([i \in 1..(Len(_drawParameters') - Len(_drawParameters)) |->
                         TrianglesOfDraw(_drawParameters'[Len(_drawParameters) + i])])
        /\ SubSeq(_drawParameters', 1, Len(_drawParameters)) = _drawParameters ]_vars

\* two batches loaded one after the other, one instance each, of two assets
C33_Witness ==
  /\ lastOp.op = "ExecuteLoad"
  /\ rebuilds = 2 /\ clears = 0
  /\ Len(fileLoads) = 2 /\ Len(_loadedMapObjects) = 2 /\ Len(_instances) = 2
  /\ Len(_drawParameters) = 5
  /\ _numTriangles = 5

(***************************************************************************)
(* C34: the placement details and the instances.                           *)
(***************************************************************************)
InRangeOf(seq, index) == index \in 0..(Len(seq) - 1)
Contains(seq, v) == \E i \in 1..Len(seq) : seq[i] = v

\* C34: the placement details hold one entry per instance, in the order of
\* the instances: the entry of instance k has instanceIndex k, its
\* loadedIndex is an index into the loaded map objects, and the instance IDs
\* of that map object contain k.
C34_DetailsMatchInstances ==
  /\ Len(_mapObjectPlacementDetails) = Len(_instances)
  /\ \A k \in 0..(Len(_mapObjectPlacementDetails) - 1) :
       LET details == _mapObjectPlacementDetails[k + 1] IN
       /\ details.instanceIndex = k
       /\ InRangeOf(_loadedMapObjects, details.loadedIndex)
       /\ Contains(_loadedMapObjects[details.loadedIndex + 1].instanceIDs, k)

\* two instances of one asset
C34_Witness ==
  /\ lastOp.op = "ExecuteLoad"
  /\ Len(_instances) = 2 /\ Len(_loadedMapObjects) = 1
  /\ _mapObjectPlacementDetails[2] = [loadedIndex |-> 0, instanceIndex |-> 1]
  /\ _loadedMapObjects[1].instanceIDs = <<0, 1>>

\* a second batch whose only placement failed to load
C34_WitnessFailedLoad ==
  /\ lastOp.op = "ExecuteLoad"
  /\ \E n \in DOMAIN lastOp.fs : lastOp.fs[n] # "ok"
  /\ rebuilds = 2
  /\ Len(_instances) = 1 /\ Len(_mapObjectPlacementDetails) = 1

(***************************************************************************)
(* C35: the chunk-to-placement offset.                                     *)
(***************************************************************************)
\* the chunks whose first queued placement was loaded, with its instance
LoadedFirstOf(chunkID) ==
  { k \in InstanceIDs : /\ firstQueued[chunkID] # NoPlacement
                        /\ PlacementOfInstance(k) = firstQueued[chunkID] }

\* C35: once ExecuteLoad has run, the offset recorded for a chunk is the
\* index, in the placement details, of the first placement the chunk queued.
C35_OffsetIsDetailsIndex ==
  _mapObjectsToBeLoaded = <<>> =>
    \A chunkID \in DOMAIN _mapChunkToPlacementOffset :
      \A k \in LoadedFirstOf(chunkID) :
        _mapChunkToPlacementOffset[chunkID] = _mapObjectPlacementDetails[k].instanceIndex

\* a chunk registered after an earlier batch was loaded: the offset is 0, the
\* details of its first placement are at 1
C35_EarlierBatchLoaded ==
  /\ lastOp.op = "ExecuteLoad" /\ rebuilds = 2 /\ clears = 0
  /\ DOMAIN _mapChunkToPlacementOffset = {1}
  /\ firstQueued[1] = 1
  /\ _mapChunkToPlacementOffset[1] = 0
  /\ Len(_instances) = 2 /\ PlacementOfInstance(2) = 1
  /\ _mapObjectPlacementDetails[2].instanceIndex = 1

\* a chunk registered behind a pending placement that then failed to load:
\* the offset is 1, the details of its first placement are at 0
C35_EarlierPlacementFailed ==
  /\ lastOp.op = "ExecuteLoad" /\ rebuilds = 1 /\ clears = 0
  /\ DOMAIN _mapChunkToPlacementOffset = {2}
  /\ firstQueued[2] = 2
  /\ _mapChunkToPlacementOffset[2] = 1
  /\ Len(_instances) = 1 /\ PlacementOfInstance(1) = 2
  /\ _mapObjectPlacementDetails[1].instanceIndex = 0

\* the first batch with every file there: the offset is the index
C35_FirstBatch ==
  /\ lastOp.op = "ExecuteLoad" /\ rebuilds = 1 /\ clears = 0
  /\ DOMAIN _mapChunkToPlacementOffset = {2}
  /\ firstQueued[2] = 2
  /\ _mapChunkToPlacementOffset[2] = 0
  /\ Len(_instances) = 2 /\ PlacementOfInstance(1) = 2

(***************************************************************************)
(* C36: what LoadScript returns and LoadScriptDirectory counts.            *)
(***************************************************************************)
RanToCompletion(script) ==
  /\ script.startNewModule >= 0
  /\ script.addSectionFromFile >= 0
  /\ script.buildModule >= 0
  /\ script.hasMain
  /\ script.execute = "asEXECUTION_FINISHED"
CountOf(flags) == Cardinality({ i \in 1..Len(flags) : flags[i] })

\* C36: LoadScript returns true exactly for a script whose module was
\* started, whose file was added, that was built, has a main and ran to
\* completion, false for every other outcome; LoadScriptDirectory counts the
\* scripts of the first kind.
C36_LoadedOnlyWhenFinished ==
  /\ Len(scriptResults) = Len(scriptFiles)
  /\ \A i \in 1..Len(scriptFiles) : scriptResults[i] = RanToCompletion(scriptFiles[i])
  /\ scriptCount = CountOf([i \in 1..Len(scriptFiles) |-> RanToCompletion(scriptFiles[i])])

\* a folder with one script that was aborted, counted as loaded
C36_AbortedCounted ==
  /\ Len(scriptFiles) = 1
  /\ scriptFiles[1].execute = "asEXECUTION_ABORTED"
  /\ scriptResults = <<TRUE>>
  /\ scriptCount = 1

\* what holds: false for a step that failed and for an exception, true
\* otherwise; the count is the number of scripts LoadScript returned true for
C36_LoadedUnlessException ==
  /\ Len(scriptResults) = Len(scriptFiles)
  /\ \A i \in 1..Len(scriptFiles) :
       scriptResults[i] =
         (\/ RanToCompletion(scriptFiles[i])
          \/ /\ RanToCompletion([scriptFiles[i] EXCEPT !.execute = "asEXECUTION_FINISHED"])
             /\ scriptFiles[i].execute # "asEXECUTION_EXCEPTION")
  /\ scriptCount = CountOf(scriptResults)

C36_ExceptionNotCounted ==
  /\ Len(scriptFiles) = 2
  /\ scriptFiles[1].execute = "asEXECUTION_EXCEPTION"
  /\ scriptFiles[2] = GoodScript
  /\ scriptResults = <<FALSE, TRUE>>
  /\ scriptCount = 1

(***************************************************************************)
(* C37: the draw parameters and the instance lookup data.                  *)
(***************************************************************************)
\* the lookup Update and the shaders do for a draw parameter
LookupOf(drawParameters) == _instanceLookupData[drawParameters.firstInstance + 1]

\* C37: the draw parameters and the instance lookup data have the same
\* length, draw parameter i has firstInstance i and instanceCount 1, so the
\* lookup by firstInstance is in range and yields the entry appended with the
\* draw parameter: that of the same vertex offset, of an instance there is,
\* and of the map object that lists the draw parameter.
C37_LookupByFirstInstance ==
  /\ Len(_drawParameters) = Len(_instanceLookupData)
  /\ \A i \in 0..(Len(_drawParameters) - 1) :
       LET drawParameters == _drawParameters[i + 1] IN
       /\ drawParameters.firstInstance = i
       /\ drawParameters.instanceCount = 1
       /\ InRangeOf(_instanceLookupData, drawParameters.firstInstance)
       /\ LookupOf(drawParameters).vertexOffset = drawParameters.vertexOffset
       /\ InRangeOf(_instances, LookupOf(drawParameters).instanceID)
       /\ InRangeOf(_loadedMapObjects, LookupOf(drawParameters).loadedObjectID)
       /\ Contains(_loadedMapObjects[LookupOf(drawParameters).loadedObjectID + 1].drawParameterIDs, i)

\* two instances of the asset of three render batches: the draw parameters
\* of the second start at 3 while its instance ID is 1
C37_Witness ==
  /\ Len(_instances) = 2 /\ Len(_loadedMapObjects) = 1
  /\ Len(_drawParameters) = 6
  /\ _drawParameters[4].firstInstance = 3
  /\ LookupOf(_drawParameters[4]).instanceID = 1

====
